---- MODULE Spec2Model ----
(***************************************************************************)
(* Weight allocation of autoconvert (src/autoconvert/weight_alloc.py).     *)
(*                                                                         *)
(* Decimal values (weights) are held as integers counting units of         *)
(* 10^-UnitDigits; quantities are whole numbers.  The decimal module's     *)
(* context arithmetic (division and multiplication rounded half-even to    *)
(* DecimalPrec significant digits) is modelled digit by digit, so that     *)
(* part_weight * (qty / total_qty) is computed as the code computes it.    *)
(***************************************************************************)
EXTENDS Integers, Sequences, FiniteSets, TLC

(***************************************************************************)
(* Program constants                                                       *)
(***************************************************************************)
MinPrecision == 2

MaxPrecision == 5

DecimalPrec == 28

\* line_precision never exceeds MaxPrecision + 1 decimals
UnitDigits == MaxPrecision + 1

Unit == 10 ^ UnitDigits

\* threshold = Decimal("0.1")
threshold == Unit \div 10

\* column_map.py: the header scan window, its width, the data-like threshold
HEADER_SCAN_ROW_START == 7

HEADER_SCAN_ROW_END == 30

HEADER_SCAN_COL_COUNT == 13

DATA_LIKE_THRESHOLD == 3

MAP_COL_COUNT == 20

\* _currency_data_row_fallback scans rows header_row + 1 .. header_row + 4
CURRENCY_SCAN_ROWS == 4

INV_NO_SCAN_ROW_END == 15

STOP_SCAN_COL_COUNT == 10

TOTAL_ROW_WINDOW == 15

(***************************************************************************)
(* Bounds of the model                                                     *)
(***************************************************************************)
MaxPacking == 2

MaxInvoice == 3

MaxRow == 2

MaxCol == 3

MaxMerges == 1

MaxScanRows == 3

MaxMapRows == 2

MaxInvCells == 3

MaxItemRows == 3

MaxPackingRows == 3

MaxFiles == 2

MaxTransformItems == 2

(***************************************************************************)
(* Generic helpers                                                         *)
(***************************************************************************)
None == << >>

Some(v) == << v >>

Abs(x) == IF x < 0 THEN -x ELSE x

Max(a, b) == IF a >= b THEN a ELSE b

Min(a, b) == IF a <= b THEN a ELSE b

RECURSIVE SumSeq(_)
SumSeq(s) == IF s = << >> THEN 0 ELSE Head(s) + SumSeq(Tail(s))

SeqsUpTo(S, n) == UNION { [1..k -> S] : k \in 0..n }

\* str.strip(): part numbers are sequences of characters
IsSpace(c) == c = " "

RECURSIVE LStrip(_)
LStrip(s) == IF s # << >> /\ IsSpace(Head(s)) THEN LStrip(Tail(s)) ELSE s

RECURSIVE RStrip(_)
RStrip(s) ==
    IF s # << >> /\ IsSpace(s[Len(s)]) THEN RStrip(SubSeq(s, 1, Len(s) - 1)) ELSE s

strip(s) == RStrip(LStrip(s))

(***************************************************************************)
(* dict[str, Decimal] in insertion order: a sequence of [key, val]         *)
(***************************************************************************)
DictHas(d, k) == \E i \in 1..Len(d) : d[i].key = k

DictGet(d, k, default) ==
    IF DictHas(d, k) THEN d[CHOOSE i \in 1..Len(d) : d[i].key = k].val ELSE default

DictPut(d, k, v) ==
    IF DictHas(d, k)
    THEN [i \in 1..Len(d) |-> IF d[i].key = k THEN [key |-> k, val |-> v] ELSE d[i]]
    ELSE Append(d, [key |-> k, val |-> v])

DictValues(d) == [i \in 1..Len(d) |-> d[i].val]

(***************************************************************************)
(* utils.round_half_up on a value held in units of 10^-UnitDigits          *)
(***************************************************************************)
round_half_up(value, decimals) ==
    LET g == 10 ^ (UnitDigits - decimals)
        a == Abs(value)
        r == ((a + (g \div 2)) \div g) * g
    IN  IF value < 0 THEN -r ELSE r

(***************************************************************************)
(* Decimal context arithmetic on digit sequences.                          *)
(* A number is [digs, frac]: the integer written by digs (most significant *)
(* digit first) times 10^-frac.  Operands are non-negative, as quantities  *)
(* and part weights are where the allocator divides and multiplies.        *)
(***************************************************************************)
RECURSIVE StripZeros(_)
StripZeros(d) == IF d # << >> /\ Head(d) = 0 THEN StripZeros(Tail(d)) ELSE d

RECURSIVE IntDigits(_)
IntDigits(n) == IF n < 10 THEN << n >> ELSE Append(IntDigits(n \div 10), n % 10)

RECURSIVE DigitsInt(_)
DigitsInt(d) ==
    IF d = << >> THEN 0 ELSE DigitsInt(SubSeq(d, 1, Len(d) - 1)) * 10 + d[Len(d)]

RECURSIVE Incr(_)
Incr(d) ==
    IF d = << >> THEN << 1 >>
    ELSE IF d[Len(d)] < 9 THEN [d EXCEPT ![Len(d)] = @ + 1]
    ELSE Append(Incr(SubSeq(d, 1, Len(d) - 1)), 0)

RECURSIVE LongDiv(_, _, _, _)
LongDiv(r, d, digs, frac) ==
    IF r = 0 \/ Len(StripZeros(digs)) >= DecimalPrec
    THEN [digs |-> digs, frac |-> frac, rem |-> r]
    ELSE LongDiv((r * 10) % d, d, Append(digs, (r * 10) \div d), frac + 1)

\* Decimal.__truediv__: q / d, correctly rounded (half-even) to DecimalPrec digits
DecDivide(q, d) ==
    LET x  == LongDiv(q % d, d, IntDigits(q \div d), 0)
        up == x.rem # 0 /\ (2 * x.rem > d
                            \/ (2 * x.rem = d /\ x.digs[Len(x.digs)] % 2 = 1))
    IN  [digs |-> IF up THEN Incr(x.digs) ELSE x.digs, frac |-> x.frac]

RECURSIVE MulDigits(_, _, _)
MulDigits(digs, m, carry) ==
    IF digs = << >> THEN (IF carry = 0 THEN << >> ELSE IntDigits(carry))
    ELSE LET t == digs[Len(digs)] * m + carry
         IN  Append(MulDigits(SubSeq(digs, 1, Len(digs) - 1), m, t \div 10), t % 10)

\* context rounding of an exact result to DecimalPrec significant digits
RoundSig(x) ==
    LET s == StripZeros(x.digs)
    IN  IF Len(s) <= DecimalPrec THEN [digs |-> s, frac |-> x.frac]
        ELSE LET head == SubSeq(s, 1, DecimalPrec)
                 tail == SubSeq(s, DecimalPrec + 1, Len(s))
                 rest == \E i \in 2..Len(tail) : tail[i] # 0
                 up   == \/ tail[1] > 5
                         \/ tail[1] = 5 /\ (rest \/ head[DecimalPrec] % 2 = 1)
             IN  [digs |-> IF up THEN Incr(head) ELSE head,
                  frac |-> x.frac - Len(tail)]

\* Decimal.__mul__: a weight of m units times x
DecTimes(m, x) == RoundSig([digs |-> MulDigits(x.digs, m, 0), frac |-> x.frac])

\* Decimal.quantize(10^-decimals, ROUND_HALF_UP) of x units, result in units
DecQuantizeHalfUp(x, decimals) ==
    LET drop  == x.frac + (UnitDigits - decimals)
        L     == Len(x.digs)
        keep  == IF drop < L THEN SubSeq(x.digs, 1, L - drop) ELSE << >>
        first == IF drop >= 1 /\ drop <= L THEN x.digs[L - drop + 1] ELSE 0
    IN  (DigitsInt(keep) + (IF first >= 5 THEN 1 ELSE 0)) * (10 ^ (UnitDigits - decimals))

(***************************************************************************)
(* ProcessingError: the code and, for ERR_040 / ERR_043, the parts named   *)
(***************************************************************************)
NoError == [code |-> "", parts |-> << >>]

ProcessingError(code, parts) == [code |-> code, parts |-> parts]

(***************************************************************************)
(* FR-021  _aggregate_packing                                              *)
(***************************************************************************)
RECURSIVE AggregateLoop(_, _, _)
AggregateLoop(items, nw, qty) ==
    IF items = << >> THEN [agg_nw |-> nw, agg_qty |-> qty]
    ELSE LET item == Head(items)
             key  == strip(item.part_no)
         IN  AggregateLoop(Tail(items),
                           DictPut(nw, key, DictGet(nw, key, 0) + item.nw),
                           DictPut(qty, key, DictGet(qty, key, 0) + item.qty))

\* variant: the aggregated quantities are not validated
aggregate_packing_weights_only(items) ==
    LET a == AggregateLoop(items, << >>, << >>)
    IN  IF \E i \in 1..Len(a.agg_nw) : a.agg_nw[i].val <= 0
        THEN [err |-> ProcessingError("ERR_042", << >>), agg_nw |-> << >>, agg_qty |-> << >>]
        ELSE [err |-> NoError, agg_nw |-> a.agg_nw, agg_qty |-> a.agg_qty]

aggregate_packing(items) ==
    LET a == AggregateLoop(items, << >>, << >>)
    IN  IF \E i \in 1..Len(a.agg_nw) : a.agg_nw[i].val <= 0
        THEN [err |-> ProcessingError("ERR_042", << >>), agg_nw |-> << >>, agg_qty |-> << >>]
        ELSE IF \E i \in 1..Len(a.agg_qty) : a.agg_qty[i].val <= 0
        THEN [err |-> ProcessingError("ERR_045", << >>), agg_nw |-> << >>, agg_qty |-> << >>]
        ELSE [err |-> NoError, agg_nw |-> a.agg_nw, agg_qty |-> a.agg_qty]

(***************************************************************************)
(* FR-022  _validate_packing_sum                                           *)
(***************************************************************************)
\* variant: the boundary itself rejected
validate_packing_sum_inclusive(nw, total) ==
    LET packing_sum == SumSeq(DictValues(nw))
        difference  == Abs(packing_sum - total)
    IN  IF difference >= threshold THEN ProcessingError("ERR_047", << >>) ELSE NoError

validate_packing_sum(nw, total) ==
    LET packing_sum == SumSeq(DictValues(nw))
        difference  == Abs(packing_sum - total)
    IN  IF difference > threshold THEN ProcessingError("ERR_047", << >>) ELSE NoError

(***************************************************************************)
(* FR-023  _determine_precision and _zero_check_escalation                 *)
(***************************************************************************)
RoundedSum(nw, decimals) ==
    SumSeq([i \in 1..Len(nw) |-> round_half_up(nw[i].val, decimals)])

\* Step 1 and 2 of _determine_precision: base precision and sum matching
\* variant: the base precision kept when neither precision matches
sum_matching_keep_base(total, precision, nw) ==
    LET base_n   == Max(MinPrecision, Min(precision, MaxPrecision))
        n_plus_1 == Min(base_n + 1, MaxPrecision)
    IN  IF RoundedSum(nw, base_n) = total THEN base_n
        ELSE IF RoundedSum(nw, n_plus_1) = total THEN n_plus_1
        ELSE base_n

\* variant: N + 1 never tried
sum_matching_base_only(total, precision, nw) ==
    Max(MinPrecision, Min(precision, MaxPrecision))

sum_matching(total, precision, nw) ==
    LET base_n   == Max(MinPrecision, Min(precision, MaxPrecision))
        n_plus_1 == Min(base_n + 1, MaxPrecision)
    IN  IF RoundedSum(nw, base_n) = total THEN base_n
        ELSE IF RoundedSum(nw, n_plus_1) = total THEN n_plus_1
        ELSE n_plus_1

\* variant: one escalation step, not checked again
zero_check_escalation_once(current, nw) ==
    IF ~ \E i \in 1..Len(nw) : round_half_up(nw[i].val, current) = 0
    THEN [err |-> NoError, precision |-> current]
    ELSE IF current = MaxPrecision
    THEN [err |-> ProcessingError("ERR_044", << >>), precision |-> current]
    ELSE [err |-> NoError, precision |-> current + 1]

RECURSIVE zero_check_escalation(_, _)
zero_check_escalation(current, nw) ==
    IF current > MaxPrecision THEN [err |-> NoError, precision |-> current]
    ELSE IF ~ \E i \in 1..Len(nw) : round_half_up(nw[i].val, current) = 0
    THEN [err |-> NoError, precision |-> current]
    ELSE IF current = MaxPrecision
    THEN [err |-> ProcessingError("ERR_044", << >>), precision |-> current]
    ELSE zero_check_escalation(current + 1, nw)

(***************************************************************************)
(* FR-024  _round_and_adjust                                               *)
(***************************************************************************)
\* variant: a remainder of zero rejected as well
round_and_adjust_strict(nw, precision, total) ==
    LET rounded    == [i \in 1..Len(nw) |->
                          [key |-> nw[i].key, val |-> round_half_up(nw[i].val, precision)]]
        n          == Len(nw)
        sum_others == SumSeq([i \in 1..(n - 1) |-> rounded[i].val])
        remainder  == total - sum_others
    IN  IF n = 0 THEN [err |-> NoError, rounded |-> rounded]
        ELSE IF remainder <= 0
        THEN [err |-> ProcessingError("ERR_041", << >>), rounded |-> << >>]
        ELSE [err |-> NoError,
              rounded |-> [rounded EXCEPT ![n] = [key |-> rounded[n].key, val |-> remainder]]]

round_and_adjust(nw, precision, total) ==
    LET rounded    == [i \in 1..Len(nw) |->
                          [key |-> nw[i].key, val |-> round_half_up(nw[i].val, precision)]]
        n          == Len(nw)
        sum_others == SumSeq([i \in 1..(n - 1) |-> rounded[i].val])
        remainder  == total - sum_others
    IN  IF n = 0 THEN [err |-> NoError, rounded |-> rounded]
        ELSE IF remainder < 0
        THEN [err |-> ProcessingError("ERR_041", << >>), rounded |-> << >>]
        ELSE [err |-> NoError,
              rounded |-> [rounded EXCEPT ![n] = [key |-> rounded[n].key, val |-> remainder]]]

(***************************************************************************)
(* FR-025  _proportional_allocate                                          *)
(***************************************************************************)
\* indices of the invoice items whose stripped part_no is key, ascending
RECURSIVE IndicesOf(_, _, _)
IndicesOf(items, key, i) ==
    IF i > Len(items) THEN << >>
    ELSE IF strip(items[i].part_no) = key
    THEN << i >> \o IndicesOf(items, key, i + 1)
    ELSE IndicesOf(items, key, i + 1)

\* keys of invoice_by_part in insertion order
RECURSIVE InvoiceParts(_, _, _)
InvoiceParts(items, i, seen) ==
    IF i > Len(items) THEN seen
    ELSE LET key == strip(items[i].part_no)
         IN  InvoiceParts(items, i + 1,
                          IF \E j \in 1..Len(seen) : seen[j] = key
                          THEN seen ELSE Append(seen, key))

\* round_half_up(part_weight * (item.qty / total_qty), line_precision)
line_alloc(part_weight, qty, total_qty, line_precision) ==
    DecQuantizeHalfUp(DecTimes(part_weight, DecDivide(qty, total_qty)), line_precision)

\* the inner loop over one part's matching invoice items
RECURSIVE AllocateGroup(_, _, _, _, _, _, _)
AllocateGroup(items, indices, i, part_weight, total_qty, allocated_sum, line_precision) ==
    IF i > Len(indices) THEN [fault |-> FALSE, items |-> items]
    ELSE IF i < Len(indices)
    THEN IF total_qty = 0 THEN [fault |-> TRUE, items |-> items]
         ELSE LET alloc == line_alloc(part_weight, items[indices[i]].qty,
                                      total_qty, line_precision)
              IN  AllocateGroup(
                      [items EXCEPT ![indices[i]].allocated_weight = Some(alloc)],
                      indices, i + 1, part_weight, total_qty,
                      allocated_sum + alloc, line_precision)
    ELSE [fault |-> FALSE,
          items |-> [items EXCEPT ![indices[i]].allocated_weight =
                                      Some(part_weight - allocated_sum)]]

\* the loop over rounded_weights.items()
RECURSIVE AllocateLoop(_, _, _, _, _)
AllocateLoop(rounded, n, items, err_043_parts, line_precision) ==
    IF n > Len(rounded) THEN [fault |-> FALSE, items |-> items, err_043_parts |-> err_043_parts]
    ELSE LET part_no == rounded[n].key
             indices == IndicesOf(items, part_no, 1)
         IN  IF indices = << >>
             THEN AllocateLoop(rounded, n + 1, items,
                               Append(err_043_parts, part_no), line_precision)
             ELSE LET total_qty == SumSeq([j \in 1..Len(indices) |-> items[indices[j]].qty])
                      g == AllocateGroup(items, indices, 1, rounded[n].val,
                                         total_qty, 0, line_precision)
                  IN  IF g.fault
                      THEN [fault |-> TRUE, items |-> g.items, err_043_parts |-> err_043_parts]
                      ELSE AllocateLoop(rounded, n + 1, g.items, err_043_parts, line_precision)

\* variant: invoice parts without a packing entry are not reported
proportional_allocate_unreported(rounded, items, precision) ==
    LET line_precision == precision + 1
        r == AllocateLoop(rounded, 1, items, << >>, line_precision)
    IN  IF r.fault THEN [err |-> ProcessingError("ArithmeticError", << >>), items |-> r.items]
        ELSE IF r.err_043_parts # << >>
        THEN [err |-> ProcessingError("ERR_043", r.err_043_parts), items |-> r.items]
        ELSE [err |-> NoError, items |-> r.items]

proportional_allocate(rounded, items, precision) ==
    LET line_precision == precision + 1
        r == AllocateLoop(rounded, 1, items, << >>, line_precision)
        err_040_parts == SelectSeq(InvoiceParts(items, 1, << >>),
                                   LAMBDA k : ~ DictHas(rounded, k))
    IN  IF r.fault THEN [err |-> ProcessingError("ArithmeticError", << >>), items |-> r.items]
        ELSE IF err_040_parts # << >>
        THEN [err |-> ProcessingError("ERR_040", err_040_parts), items |-> r.items]
        ELSE IF r.err_043_parts # << >>
        THEN [err |-> ProcessingError("ERR_043", r.err_043_parts), items |-> r.items]
        ELSE [err |-> NoError, items |-> r.items]

(***************************************************************************)
(* FR-026  _validate_final_sum                                             *)
(***************************************************************************)
AllocatedSum(items) ==
    SumSeq([i \in 1..Len(items) |->
               IF items[i].allocated_weight = None THEN 0
               ELSE items[i].allocated_weight[1]])

\* variant: the final comparison made with the pre-validation tolerance
validate_final_sum_approximate(items, total) ==
    IF Abs(AllocatedSum(items) - total) > threshold
    THEN ProcessingError("ERR_048", << >>) ELSE NoError

validate_final_sum(items, total) ==
    IF AllocatedSum(items) # total THEN ProcessingError("ERR_048", << >>) ELSE NoError

(***************************************************************************)
(* FR-010  MergeTracker (src/autoconvert/merge_tracker.py).                *)
(* A cell is a pair <<row, col>>; a MergeRange is a record of its four     *)
(* 1-based edges; _cell_to_range is a function on the cells it holds; the  *)
(* worksheet is the set of its merged ranges and the value of each cell.   *)
(***************************************************************************)
MergeRange(min_row, max_row, min_col, max_col) ==
    [min_row |-> min_row, max_row |-> max_row, min_col |-> min_col, max_col |-> max_col]

\* the cells visited by the two nested range() loops of __init__
CellsOf(rng) == (rng.min_row .. rng.max_row) \X (rng.min_col .. rng.max_col)

\* sheet.cell(row=row, column=col).value
cell_value(cells, row, col) == cells[<< row, col >>]

\* variant: only the first row of a range is entered in the lookup
capture_range_first_row(lookup, rng) ==
    LET top == (rng.min_row .. rng.min_row) \X (rng.min_col .. rng.max_col)
    IN  [cell \in (DOMAIN lookup) \cup top |-> IF cell \in top THEN rng ELSE lookup[cell]]

\* one iteration of the snapshot loop: _cell_to_range[(r, c)] = merge_range
capture_range(lookup, rng) ==
    [cell \in (DOMAIN lookup) \cup CellsOf(rng) |->
        IF cell \in CellsOf(rng) THEN rng ELSE lookup[cell]]

\* Worksheet.unmerge_cells: the range leaves merged_cells and every cell of
\* it but the first is deleted from the sheet
unmerge_cells(cells, rng) ==
    [cell \in DOMAIN cells |->
        IF cell \in CellsOf(rng) /\ cell # << rng.min_row, rng.min_col >>
        THEN None ELSE cells[cell]]

is_merge_anchor(lookup, row, col) ==
    IF << row, col >> \notin DOMAIN lookup THEN FALSE
    ELSE LET merge_range == lookup[<< row, col >>]
         IN  row = merge_range.min_row /\ col = merge_range.min_col

is_in_merge(lookup, row, col) == << row, col >> \in DOMAIN lookup

\* variant: the queried cell is read, whether merged or not
get_anchor_value_direct(lookup, cells, row, col) == cell_value(cells, row, col)

get_anchor_value(lookup, cells, row, col) ==
    IF << row, col >> \notin DOMAIN lookup THEN cell_value(cells, row, col)
    ELSE LET merge_range == lookup[<< row, col >>]
         IN  cell_value(cells, merge_range.min_row, merge_range.min_col)

(***************************************************************************)
(* FR-007  detect_header_row (src/autoconvert/column_map.py).              *)
(* A sheet row is the sequence of its raw cell values, column 1 first:     *)
(* None or Some(text).  The string tests of the module are tabulated on    *)
(* the cell texts that occur in the sheets considered.                     *)
(***************************************************************************)
\* str(raw).strip()
StripText(text) ==
    CASE text = "  "    -> ""
      [] text = " Qty " -> "Qty"
      [] OTHER          -> text

\* c.startswith("Unnamed:")
StartsWithUnnamed(c) == c \in { "Unnamed: 0", "Unnamed: 1" }

\* any(marker in c for marker in _METADATA_MARKERS)
ContainsMetadataMarker(c) == c \in { "Tel: 123", "Fax: 456" }

\* _NUMERIC_RE.match(c)
MatchesNumeric(c) == c \in { "PT001", "10", "2.5" }

\* any(kw in c.lower() for kw in _HEADER_KEYWORDS)
ContainsHeaderKeyword(c) == c \in { "Part No", "Qty", "Price" }

\* the raw values of a row; rows the sheet does not hold are empty
RowValues(sheet, row) == IF row \in DOMAIN sheet THEN sheet[row] ELSE << >>

RECURSIVE CollectCells(_, _, _)
CollectCells(values, col, max_cols) ==
    IF col > max_cols \/ col > Len(values) THEN << >>
    ELSE LET raw  == values[col]
             rest == CollectCells(values, col + 1, max_cols)
         IN  IF raw = None THEN rest
             ELSE IF StripText(raw[1]) = "" THEN rest
             ELSE << StripText(raw[1]) >> \o rest

collect_row_cells(sheet, row, max_cols) == CollectCells(RowValues(sheet, row), 1, max_cols)

has_metadata_markers(cells) == \E i \in DOMAIN cells : ContainsMetadataMarker(cells[i])

count_numeric_cells(cells) == Cardinality({ i \in DOMAIN cells : MatchesNumeric(cells[i]) })

has_header_keywords(cells) == \E i \in DOMAIN cells : ContainsHeaderKeyword(cells[i])

\* the tier of a row that meets the threshold
row_tier(filtered) ==
    LET has_meta  == has_metadata_markers(filtered)
        num_count == count_numeric_cells(filtered)
        has_kw    == has_header_keywords(filtered)
    IN  IF has_kw /\ num_count < 2 THEN 0
        ELSE IF has_meta \/ num_count >= DATA_LIKE_THRESHOLD THEN 2
        ELSE 1

\* variant: a later row of the same tier replaces the earlier one
RECURSIVE DetectLoopLast(_, _, _, _, _)
DetectLoopLast(sheet, row, min_headers, best_tier, best_row) ==
    IF row > HEADER_SCAN_ROW_END THEN best_row
    ELSE LET cells    == collect_row_cells(sheet, row, HEADER_SCAN_COL_COUNT)
             filtered == SelectSeq(cells, LAMBDA c : ~ StartsWithUnnamed(c))
         IN  IF Len(filtered) < min_headers
             THEN DetectLoopLast(sheet, row + 1, min_headers, best_tier, best_row)
             ELSE LET tier == row_tier(filtered)
                  IN  IF tier <= best_tier
                      THEN DetectLoopLast(sheet, row + 1, min_headers, tier, Some(row))
                      ELSE DetectLoopLast(sheet, row + 1, min_headers, best_tier, best_row)

\* the loop over the scan window: best_tier and best_row so far
RECURSIVE DetectLoop(_, _, _, _, _)
DetectLoop(sheet, row, min_headers, best_tier, best_row) ==
    IF row > HEADER_SCAN_ROW_END THEN best_row
    ELSE LET cells    == collect_row_cells(sheet, row, HEADER_SCAN_COL_COUNT)
             filtered == SelectSeq(cells, LAMBDA c : ~ StartsWithUnnamed(c))
         IN  IF Len(filtered) < min_headers
             THEN DetectLoop(sheet, row + 1, min_headers, best_tier, best_row)
             ELSE LET tier == row_tier(filtered)
                  IN  IF tier < best_tier \/ (tier = best_tier /\ best_row = None)
                      THEN DetectLoop(sheet, row + 1, min_headers, tier, Some(row))
                      ELSE DetectLoop(sheet, row + 1, min_headers, best_tier, best_row)

detect_header_row(sheet, sheet_type, config) ==
    LET min_headers == IF sheet_type = "invoice" THEN config.invoice_min_headers
                       ELSE config.packing_min_headers
        best_row    == DetectLoop(sheet, HEADER_SCAN_ROW_START, min_headers, 3, None)
    IN  IF best_row = None
        THEN [err |-> ProcessingError("ERR_014", << >>), row |-> None]
        ELSE [err |-> NoError, row |-> best_row]

(***************************************************************************)
(* FR-008  map_columns (src/autoconvert/column_map.py).                    *)
(* field_defs is a dict in insertion order, name -> FieldPattern; a        *)
(* FieldPattern holds `required` and `patterns`, its regular expressions   *)
(* given by the set of the texts considered that they match.               *)
(***************************************************************************)
\* utils.normalize_header: white space collapsed, stripped, lowercased
normalize_header(text) ==
    CASE text = "Part No"         -> "part no"
      [] text = "PO No"           -> "po no"
      [] text = "Part No / PO No" -> "part no / po no"
      [] text = "Qty"             -> "qty"
      [] text = "Price"           -> "price"
      [] text = "Unit  Price"     -> "unit price"
      [] text = "Amount"          -> "amount"
      [] text = "Currency"        -> "currency"
      [] text = "N.W."            -> "n.w."
      [] text = "USD"             -> "usd"
      [] text = "PT001"           -> "pt001"
      [] OTHER                    -> text

\* any pat.search(text) for pat in fp.patterns
PatternMatches(fp, text) == text \in fp.patterns

\* sorted(): the field names in alphabetical order
NameOrder == << "amount", "currency", "nw", "part_no", "po_no", "price", "qty" >>

sorted(names) == SelectSeq(NameOrder, LAMBDA n : n \in names)

\* the loop over field_defs.items() for one header cell
RECURSIVE ScanFields(_, _, _, _, _)
ScanFields(field_defs, i, normalized, col, field_map) ==
    IF i > Len(field_defs) THEN field_map
    ELSE LET field_name == field_defs[i].key
             fp         == field_defs[i].val
         IN  IF DictHas(field_map, field_name)
             THEN ScanFields(field_defs, i + 1, normalized, col, field_map)
             ELSE IF PatternMatches(fp, normalized)
             THEN ScanFields(field_defs, i + 1, normalized, col,
                             DictPut(field_map, field_name, col))
             ELSE ScanFields(field_defs, i + 1, normalized, col, field_map)

\* the loop over the columns of one row
RECURSIVE ScanRow(_, _, _, _)
ScanRow(values, col, field_defs, field_map) ==
    IF col > MAP_COL_COUNT \/ col > Len(values) THEN field_map
    ELSE LET raw == values[col]
         IN  IF raw = None \/ StripText(raw[1]) = ""
             THEN ScanRow(values, col + 1, field_defs, field_map)
             ELSE ScanRow(values, col + 1, field_defs,
                          ScanFields(field_defs, 1, normalize_header(StripText(raw[1])),
                                     col, field_map))

scan_row_for_fields(sheet, row, field_defs, field_map) ==
    ScanRow(RowValues(sheet, row), 1, field_defs, field_map)

MissingNames(field_defs, field_map) ==
    { field_defs[i].key : i \in { j \in DOMAIN field_defs :
          field_defs[j].val.required /\ ~ DictHas(field_map, field_defs[j].key) } }

\* variant: the first missing field only
get_missing_required_first(field_defs, field_map) ==
    LET all == sorted(MissingNames(field_defs, field_map))
    IN  IF all = << >> THEN << >> ELSE << all[1] >>

get_missing_required(field_defs, field_map) == sorted(MissingNames(field_defs, field_map))

\* Step 2 of map_columns: [field_map, effective_header_row]
sub_header_fallback(sheet, header_row, field_defs, field_map) ==
    LET sub_row   == header_row + 1
        sub_cells == collect_row_cells(sheet, sub_row, MAP_COL_COUNT)
        remaining == SelectSeq(field_defs, LAMBDA d : ~ DictHas(field_map, d.key))
        sub_map   == scan_row_for_fields(sheet, sub_row, remaining, << >>)
    IN  IF get_missing_required(field_defs, field_map) # << >>
           /\ count_numeric_cells(sub_cells) < DATA_LIKE_THRESHOLD
           /\ sub_map # << >>
        THEN [field_map |-> field_map \o sub_map, effective_header_row |-> sub_row]
        ELSE [field_map |-> field_map, effective_header_row |-> header_row]

\* for shift_field in ("price", "amount"): move it off the currency's column
ShiftField(field_map, shift_field, col) ==
    IF DictHas(field_map, shift_field) /\ DictGet(field_map, shift_field, 0) = col
    THEN DictPut(field_map, shift_field, col + 1)
    ELSE field_map

\* the loop over the columns of one data row: [field_map, found]
RECURSIVE CurrencyCols(_, _, _, _, _)
CurrencyCols(values, col, field_map, currency_patterns, found) ==
    IF col > MAP_COL_COUNT \/ col > Len(values) THEN [field_map |-> field_map, found |-> found]
    ELSE LET raw == values[col]
         IN  IF raw = None \/ StripText(raw[1]) = ""
                \/ ~ PatternMatches(currency_patterns, StripText(raw[1]))
             THEN CurrencyCols(values, col + 1, field_map, currency_patterns, found)
             ELSE LET shifted == ShiftField(ShiftField(field_map, "price", col), "amount", col)
                      mapped  == IF DictHas(shifted, "currency") THEN shifted
                                 ELSE DictPut(shifted, "currency", col)
                  IN  CurrencyCols(values, col + 1, mapped, currency_patterns, TRUE)

\* the loop over the rows below the header
RECURSIVE CurrencyRows(_, _, _, _, _)
CurrencyRows(sheet, row, last, field_map, currency_patterns) ==
    IF row > last THEN field_map
    ELSE LET r == CurrencyCols(RowValues(sheet, row), 1, field_map, currency_patterns, FALSE)
         IN  IF r.found THEN r.field_map
             ELSE CurrencyRows(sheet, row + 1, last, field_map, currency_patterns)

currency_data_row_fallback(sheet, header_row, field_map, config) ==
    CurrencyRows(sheet, header_row + 1, header_row + CURRENCY_SCAN_ROWS, field_map,
                 DictGet(config.invoice_columns, "currency", << >>))

ColumnMapping(sheet_type, field_map, header_row, effective_header_row) ==
    [sheet_type |-> sheet_type, field_map |-> field_map, header_row |-> header_row,
     effective_header_row |-> effective_header_row]

(***************************************************************************)
(* FR-009  extract_inv_no_from_header (src/autoconvert/column_map.py).     *)
(* The sheet is a function on the cells that hold a value.  A capture      *)
(* pattern is the table of the texts it matches with what group(1) holds;  *)
(* label and exclude patterns are the sets of the texts they match.        *)
(***************************************************************************)
\* _read_cell_str: the stripped text, None for an empty or blank cell
read_cell_str(sheet, row, col) ==
    IF << row, col >> \notin DOMAIN sheet THEN None
    ELSE IF StripText(sheet[<< row, col >>]) = "" THEN None
    ELSE Some(StripText(sheet[<< row, col >>]))

is_excluded(candidate, exclude_patterns) == candidate \in exclude_patterns

\* _clean_inv_no_prefix: a leading "INV#", then a leading "NO.", removed
clean_inv_no_prefix(value) ==
    CASE value = "INV#789" -> "789"
      [] OTHER             -> value

\* the cells of rows 1..last_row, columns 1.._MAP_COL_COUNT that hold a value,
\* in the order of the two nested range() loops
RECURSIVE InScanOrder(_)
InScanOrder(S) ==
    IF S = {} THEN << >>
    ELSE LET first == CHOOSE c \in S :
                          \A d \in S : c[1] < d[1] \/ (c[1] = d[1] /\ c[2] <= d[2])
         IN  << first >> \o InScanOrder(S \ {first})

ScanCells(sheet, last_row) ==
    InScanOrder({ c \in DOMAIN sheet : c[1] <= last_row /\ c[2] <= MAP_COL_COUNT })

\* for pat in inv_cfg.patterns, on one cell: the cleaned candidate or None
RECURSIVE TryPatterns(_, _, _, _)
TryPatterns(patterns, j, cell_str, exclude_patterns) ==
    IF j > Len(patterns) THEN None
    ELSE LET group1 == DictGet(patterns[j], cell_str, None)
         IN  IF group1 # None /\ ~ is_excluded(group1[1], exclude_patterns)
             THEN Some(clean_inv_no_prefix(group1[1]))
             ELSE TryPatterns(patterns, j + 1, cell_str, exclude_patterns)

\* Pass 1: capture-group patterns
RECURSIVE Pass1(_, _, _, _)
Pass1(sheet, cells, i, inv_cfg) ==
    IF i > Len(cells) THEN None
    ELSE LET cell_str == read_cell_str(sheet, cells[i][1], cells[i][2])
             found    == IF cell_str = None THEN None
                         ELSE TryPatterns(inv_cfg.patterns, 1, cell_str[1],
                                          inv_cfg.exclude_patterns)
         IN  IF found # None THEN found ELSE Pass1(sheet, cells, i + 1, inv_cfg)

\* the neighbours of a label cell in the order they are tried
Neighbours(row, col) ==
    << << row, col + 1 >>, << row, col + 2 >>, << row, col + 3 >>,
       << row + 1, col >>, << row + 2, col >> >>

\* variant: the cells below tried before the cells to the right
NeighboursBelowFirst(row, col) ==
    << << row + 1, col >>, << row + 2, col >>,
       << row, col + 1 >>, << row, col + 2 >>, << row, col + 3 >> >>

RECURSIVE FirstCandidate(_, _, _, _)
FirstCandidate(sheet, places, k, exclude_patterns) ==
    IF k > Len(places) THEN None
    ELSE LET cand == read_cell_str(sheet, places[k][1], places[k][2])
         IN  IF cand # None /\ ~ is_excluded(cand[1], exclude_patterns)
             THEN Some(clean_inv_no_prefix(cand[1]))
             ELSE FirstCandidate(sheet, places, k + 1, exclude_patterns)

\* variant of the candidate search around a label cell
adjacent_lookup_below_first(sheet, row, col, exclude_patterns) ==
    FirstCandidate(sheet, NeighboursBelowFirst(row, col), 1, exclude_patterns)

\* right up to +3 columns, then row + 1 and row + 2
adjacent_lookup(sheet, row, col, exclude_patterns) ==
    FirstCandidate(sheet, Neighbours(row, col), 1, exclude_patterns)

\* Pass 2: label patterns with adjacent-cell lookup
RECURSIVE Pass2(_, _, _, _)
Pass2(sheet, cells, i, inv_cfg) ==
    IF i > Len(cells) THEN None
    ELSE LET cell_str == read_cell_str(sheet, cells[i][1], cells[i][2])
             found    == IF cell_str = None THEN None
                         ELSE IF cell_str[1] \notin inv_cfg.label_patterns THEN None
                         ELSE adjacent_lookup(sheet, cells[i][1], cells[i][2],
                                              inv_cfg.exclude_patterns)
         IN  IF found # None THEN found ELSE Pass2(sheet, cells, i + 1, inv_cfg)

extract_inv_no_from_header(sheet, config) ==
    LET inv_cfg == config.inv_no_cell
        cells   == ScanCells(sheet, INV_NO_SCAN_ROW_END)
        first   == Pass1(sheet, cells, 1, inv_cfg)
    IN  IF first # None THEN first ELSE Pass2(sheet, cells, 1, inv_cfg)

(***************************************************************************)
(* FR-011  extract_invoice_items (src/autoconvert/extract_invoice.py).     *)
(* A cell value is absent, a string or an integer number.  The string      *)
(* tests are tabulated on the texts the sheets of the model hold;          *)
(* "Customs Co" stands for a text holding one of FOOTER_KEYWORDS, which    *)
(* are written in CJK characters.                                          *)
(***************************************************************************)
EmptyCell == [kind |-> "none", text |-> "", num |-> 0]

Str(t) == [kind |-> "str", text |-> t, num |-> 0]

Number(n) == [kind |-> "int", text |-> "", num |-> n]

\* sheet.cell(row=row, column=col).value
sheet_cell(sheet, row, col) ==
    IF << row, col >> \in DOMAIN sheet THEN sheet[<< row, col >>] ELSE EmptyCell

\* utils.is_stop_keyword: a stop keyword is a substring of the lowered value
is_stop_keyword(value) == value \in { "Total", "Grand Total" }

\* "total" in part_no.lower()
ContainsTotal(part_no) == part_no \in { "Total", "Grand Total" }

\* any(kw in part_no for kw in FOOTER_KEYWORDS)
ContainsFooterKeyword(part_no) == part_no \in { "Customs Co" }

\* utils.is_placeholder
is_placeholder(value) == value \in { "N/A", "-" }

\* "part no" in part_no_raw.lower()
ContainsPartNoLabel(part_no_raw) == part_no_raw \in { "Part No" }

\* utils.strip_unit_suffix
strip_unit_suffix(value) ==
    CASE value = "10 PCS" -> "10"
      [] value = "10 KG"  -> "10"
      [] OTHER            -> StripText(value)

\* Decimal(cleaned): the number, None when the text is no number
DecimalOf(cleaned) ==
    CASE cleaned = "10" -> Some(10)
      [] OTHER          -> None

\* _clean_inv_no
clean_inv_no(value) ==
    CASE value = "INV#789" -> "789"
      [] OTHER             -> value

\* an ERR_030 / ERR_031 of a field at a row
FieldError(code, field_name, row) == ProcessingError(code, << field_name, row >>)

read_string_field(sheet, row, col, lookup) ==
    LET raw == IF is_in_merge(lookup, row, col) /\ ~ is_merge_anchor(lookup, row, col)
               THEN get_anchor_value(lookup, sheet, row, col)
               ELSE sheet_cell(sheet, row, col)
    IN  CASE raw.kind = "none" -> None
          [] raw.kind = "int"  -> Some(ToString(raw.num))
          [] OTHER             -> IF StripText(raw.text) = "" THEN None
                                  ELSE Some(StripText(raw.text))

require_string(sheet, row, col, field_name, lookup) ==
    LET val == read_string_field(sheet, row, col, lookup)
    IN  IF val = None
        THEN [err |-> FieldError("ERR_030", field_name, row), val |-> ""]
        ELSE IF is_placeholder(val[1])
        THEN [err |-> FieldError("ERR_030", field_name, row), val |-> ""]
        ELSE [err |-> NoError, val |-> val[1]]

read_brand_type(sheet, row, brand_type_col, lookup, brand_value) ==
    IF is_in_merge(lookup, row, brand_type_col)
       /\ ~ is_merge_anchor(lookup, row, brand_type_col)
    THEN LET anchor_val == get_anchor_value(lookup, sheet, row, brand_type_col)
         IN  IF anchor_val.kind = "str" /\ StripText(anchor_val.text) # ""
             THEN [err |-> NoError, val |-> StripText(anchor_val.text)]
             ELSE [err |-> NoError, val |-> brand_value]
    ELSE LET raw == sheet_cell(sheet, row, brand_type_col)
         IN  IF raw.kind = "none" \/ (raw.kind = "str" /\ StripText(raw.text) = "")
             THEN [err |-> FieldError("ERR_030", "brand_type", row), val |-> ""]
             ELSE IF raw.kind = "str"
             THEN IF is_placeholder(StripText(raw.text))
                  THEN [err |-> FieldError("ERR_030", "brand_type", row), val |-> ""]
                  ELSE [err |-> NoError, val |-> StripText(raw.text)]
             ELSE [err |-> NoError, val |-> ToString(raw.num)]

\* utils.parse_numeric on a string (after strip_unit_suffix) or an integer
parse_numeric(raw, field_name, row) ==
    IF raw.kind = "str"
    THEN LET parsed == DecimalOf(strip_unit_suffix(raw.text))
         IN  IF parsed = None
             THEN [err |-> FieldError("ERR_031", field_name, row), val |-> 0]
             ELSE [err |-> NoError, val |-> parsed[1]]
    ELSE [err |-> NoError, val |-> raw.num]

\* the numbers of the model are integers, which round_half_up at 2, 5 or
\* the detected number of decimals leaves at their value
read_numeric_field(sheet, row, col, field_name, lookup) ==
    LET raw == sheet_cell(sheet, row, col)
    IN  IF is_in_merge(lookup, row, col) /\ ~ is_merge_anchor(lookup, row, col)
        THEN [err |-> FieldError("ERR_030", field_name, row), val |-> 0]
        ELSE IF raw.kind = "none" \/ (raw.kind = "str" /\ StripText(raw.text) = "")
        THEN [err |-> FieldError("ERR_030", field_name, row), val |-> 0]
        ELSE parse_numeric(raw, field_name, row)

\* variant: only the part-number column is looked at
scan_stop_keywords_first_column(sheet, row) ==
    LET raw == sheet_cell(sheet, row, 1)
    IN  raw.kind = "str" /\ is_stop_keyword(raw.text)

scan_stop_keywords(sheet, row) ==
    \E col \in 1..STOP_SCAN_COL_COUNT :
        LET raw == sheet_cell(sheet, row, col)
        IN  raw.kind = "str" /\ is_stop_keyword(raw.text)

check_part_no_stops(part_no) ==
    IF part_no = None THEN FALSE
    ELSE ContainsTotal(part_no[1]) \/ ContainsFooterKeyword(part_no[1])

read_optional_string(sheet, row, col, lookup) ==
    IF col = None THEN None
    ELSE LET val == read_string_field(sheet, row, col[1], lookup)
         IN  IF val # None /\ ~ is_placeholder(val[1]) THEN val ELSE None

\* fm.get(name)
FieldMapGet(fm, name) == IF DictHas(fm, name) THEN Some(DictGet(fm, name, 0)) ELSE None

\* variant: a quantity cell holding only spaces does not count as empty
is_blank_row_strict(part_no_raw, qty_raw) ==
    /\ part_no_raw = None \/ part_no_raw = Some("")
    /\ qty_raw.kind = "none"

\* pn_empty and qty_empty of step d
is_blank_row(part_no_raw, qty_raw) ==
    /\ part_no_raw = None \/ part_no_raw = Some("")
    /\ qty_raw.kind = "none" \/ (qty_raw.kind = "str" /\ StripText(qty_raw.text) = "")

is_header_continuation(part_no_raw) ==
    part_no_raw # None /\ ContainsPartNoLabel(part_no_raw[1])

\* the first error among the results of the field reads, in reading order
RECURSIVE FirstError(_, _)
FirstError(results, i) ==
    IF i > Len(results) THEN NoError
    ELSE IF results[i].err # NoError THEN results[i].err
    ELSE FirstError(results, i + 1)

\* steps f and g on one row: the error raised, or the InvoiceItem built
read_invoice_item(sheet, row, fm, lookup, inv_no) ==
    LET part_no    == require_string(sheet, row, DictGet(fm, "part_no", 0), "part_no", lookup)
        po_no      == require_string(sheet, row, DictGet(fm, "po_no", 0), "po_no", lookup)
        currency   == require_string(sheet, row, DictGet(fm, "currency", 0), "currency", lookup)
        coo_raw    == read_optional_string(sheet, row, FieldMapGet(fm, "coo"), lookup)
        cod_value  == read_optional_string(sheet, row, FieldMapGet(fm, "cod"), lookup)
        coo        == IF cod_value # None /\ ~ is_placeholder(cod_value[1])
                      THEN [err |-> NoError, val |-> cod_value[1]]
                      ELSE IF coo_raw # None /\ ~ is_placeholder(coo_raw[1])
                      THEN [err |-> NoError, val |-> coo_raw[1]]
                      ELSE [err |-> FieldError("ERR_030", "coo", row), val |-> ""]
        brand      == require_string(sheet, row, DictGet(fm, "brand", 0), "brand", lookup)
        brand_type == read_brand_type(sheet, row, DictGet(fm, "brand_type", 0), lookup, brand.val)
        model_val  == require_string(sheet, row, DictGet(fm, "model", 0), "model", lookup)
        serial_value == read_optional_string(sheet, row, FieldMapGet(fm, "serial"), lookup)
        inv_raw    == read_optional_string(sheet, row, FieldMapGet(fm, "inv_no"), lookup)
        row_inv_no == IF FieldMapGet(fm, "inv_no") # None /\ inv_raw # None
                      THEN Some(clean_inv_no(clean_inv_no(inv_raw[1])))
                      ELSE IF inv_no # None THEN Some(clean_inv_no(inv_no[1]))
                      ELSE None
        qty        == read_numeric_field(sheet, row, DictGet(fm, "qty", 0), "qty", lookup)
        price      == read_numeric_field(sheet, row, DictGet(fm, "price", 0), "price", lookup)
        amount     == read_numeric_field(sheet, row, DictGet(fm, "amount", 0), "amount", lookup)
        err        == FirstError(<< part_no, po_no, currency, coo, brand, brand_type,
                                    model_val, qty, price, amount >>, 1)
    IN  [ err  |-> err,
          item |-> [ part_no |-> part_no.val, po_no |-> po_no.val, qty |-> qty.val,
                     price |-> price.val, amount |-> amount.val,
                     currency |-> currency.val, coo |-> coo.val, cod |-> cod_value,
                     brand |-> brand.val, brand_type |-> brand_type.val,
                     model |-> model_val.val, inv_no |-> row_inv_no,
                     serial |-> serial_value, allocated_weight |-> None ] ]

(***************************************************************************)
(* FR-018, FR-019  convert_currency and convert_country                    *)
(* (src/autoconvert/transform.py).  InvoiceItem objects live in a heap, a  *)
(* sequence indexed by object identity; a list of items is a sequence of   *)
(* identities, so that a copy and an update in place differ.               *)
(***************************************************************************)
\* config_helpers.normalize_lookup_key: value.strip().upper().replace(", ", ",")
normalize_lookup_key(value) ==
    CASE value = "usd "          -> "USD"
      [] value = "Taiwan, China" -> "TAIWAN,CHINA"
      [] value = "cn"            -> "CN"
      [] value = "Mars"          -> "MARS"
      [] OTHER                   -> value

\* variant: the raw value is looked up as it stands
lookup_target_raw(lookup, value) ==
    IF DictHas(lookup, value) THEN Some(DictGet(lookup, value, "")) ELSE None

\* lookup.get(normalize_lookup_key(value))
lookup_target(lookup, value) ==
    LET normalized_key == normalize_lookup_key(value)
    IN  IF DictHas(lookup, normalized_key)
        THEN Some(DictGet(lookup, normalized_key, "")) ELSE None

\* item.model_copy(): a new object with the fields of the old one
model_copy(heap, id) == Append(heap, heap[id])

\* item.model_copy(update={field: value})
model_copy_update(heap, id, field, value) ==
    Append(heap, [heap[id] EXCEPT ![field] = value])

\* the loop shared by the two conversions: for item in items
RECURSIVE ConvertLoop(_, _, _, _, _, _, _, _)
ConvertLoop(heap, items, i, lookup, field, att, updated, warnings) ==
    IF i > Len(items) THEN [heap |-> heap, updated |-> updated, warnings |-> warnings]
    ELSE LET target_code == lookup_target(lookup, heap[items[i]][field])
         IN  IF target_code # None
             THEN ConvertLoop(model_copy_update(heap, items[i], field, target_code[1]),
                              items, i + 1, lookup, field, att,
                              Append(updated, Len(heap) + 1), warnings)
             ELSE ConvertLoop(model_copy(heap, items[i]),
                              items, i + 1, lookup, field, att,
                              Append(updated, Len(heap) + 1),
                              Append(warnings, ProcessingError(att, << field >>)))

convert_currency(heap, items, config) ==
    ConvertLoop(heap, items, 1, config.currency_lookup, "currency", "ATT_003",
                << >>, << >>)

convert_country(heap, items, config) ==
    ConvertLoop(heap, items, 1, config.country_lookup, "coo", "ATT_004",
                << >>, << >>)

(***************************************************************************)
(* FR-012  extract_packing_items, FR-013  validate_merged_weights          *)
(* (src/autoconvert/extract_packing.py) and FR-014  detect_total_row       *)
(* (src/autoconvert/extract_totals_helpers.py).  Cells are the records of  *)
(* the invoice extraction; quantities and weights are whole numbers, which *)
(* round_half_up leaves at their value.                                    *)
(***************************************************************************)
\* utils.is_cell_empty
is_cell_empty(value) ==
    value.kind = "none" \/ (value.kind = "str" /\ StripText(value.text) = "")

\* utils.DITTO_MARKS, of which the ASCII quotation mark is kept
DITTO_MARKS == { "\"" }

\* isinstance(raw, str) and raw.strip() in DITTO_MARKS
is_ditto(raw) == raw.kind = "str" /\ StripText(raw.text) \in DITTO_MARKS

\* any(kw in text.lower() for kw in _PALLET_KEYWORDS)
ContainsPalletKeyword(text) == text \in { "Pallet 1", "7 Pallets" }

\* text.lower() in ("kgs", "kgs.", "kg", "lbs", "lb")
IsUnitLabel(text) == text \in { "KGS" }

\* str(value) of a cell value
CellStr(value) ==
    CASE value.kind = "none" -> "None"
      [] value.kind = "int"  -> ToString(value.num)
      [] OTHER               -> value.text

\* extract_packing._read_numeric_field
packing_read_numeric_field(value, field_name, row) ==
    IF value.kind = "str"
    THEN LET parsed == DecimalOf(strip_unit_suffix(StripText(value.text)))
         IN  IF parsed = None
             THEN [err |-> FieldError("ERR_031", field_name, row), val |-> 0]
             ELSE [err |-> NoError, val |-> parsed[1]]
    ELSE IF value.kind = "int" THEN [err |-> NoError, val |-> value.num]
    ELSE [err |-> FieldError("ERR_031", field_name, row), val |-> 0]

\* merge_tracker.is_in_merge(row, col) and not merge_tracker.is_merge_anchor(row, col)
is_merge_continuation(lookup, row, col) ==
    is_in_merge(lookup, row, col) /\ ~ is_merge_anchor(lookup, row, col)

\* stop condition 1: a stop keyword in columns A-J
packing_keyword_stop(sheet, row) ==
    \E col \in 1..STOP_SCAN_COL_COUNT :
        LET cell_val == sheet_cell(sheet, row, col)
        IN  cell_val.kind = "str" /\ is_stop_keyword(cell_val.text)

\* stop condition 3: an implicit total row
implicit_total_stop(sheet, row, part_no_col, nw_col, gw_col, lookup) ==
    LET part_raw == sheet_cell(sheet, row, part_no_col)
        nw_raw == sheet_cell(sheet, row, nw_col)
        gw_raw == sheet_cell(sheet, row, gw_col)
    IN  /\ is_cell_empty(part_raw)
        /\ ~ is_cell_empty(nw_raw) /\ ~ is_ditto(nw_raw)
        /\ ~ is_cell_empty(gw_raw) /\ ~ is_ditto(gw_raw)
        /\ ~ is_merge_continuation(lookup, row, part_no_col)
        /\ LET nw_val == packing_read_numeric_field(nw_raw, "nw", row)
               gw_val == packing_read_numeric_field(gw_raw, "gw", row)
           IN  /\ nw_val.err = NoError
               /\ gw_val.err = NoError
               /\ nw_val.val > 0 /\ gw_val.val > 0

\* stop condition 2: a blank row after the first data row
blank_row_stop(sheet, row, part_no_col, nw_col, gw_col, lookup, has_first_data_row) ==
    LET part_raw == sheet_cell(sheet, row, part_no_col)
        nw_raw == sheet_cell(sheet, row, nw_col)
        gw_raw == sheet_cell(sheet, row, gw_col)
    IN  /\ has_first_data_row
        /\ is_cell_empty(part_raw)
        /\ is_cell_empty(nw_raw) \/ is_ditto(nw_raw)
        /\ is_cell_empty(gw_raw) \/ is_ditto(gw_raw)
        /\ ~ is_merge_continuation(lookup, row, part_no_col)

\* variant: the implicit total row counts only after the first data row
check_stop_conditions_after_data(sheet, row, part_no_col, nw_col, gw_col, lookup, has_first_data_row) ==
    \/ packing_keyword_stop(sheet, row)
    \/ has_first_data_row
         /\ implicit_total_stop(sheet, row, part_no_col, nw_col, gw_col, lookup)
    \/ blank_row_stop(sheet, row, part_no_col, nw_col, gw_col, lookup, has_first_data_row)

check_stop_conditions(sheet, row, part_no_col, nw_col, gw_col, lookup, has_first_data_row) ==
    \/ packing_keyword_stop(sheet, row)
    \/ implicit_total_stop(sheet, row, part_no_col, nw_col, gw_col, lookup)
    \/ blank_row_stop(sheet, row, part_no_col, nw_col, gw_col, lookup, has_first_data_row)

\* the part number of a row: the anchor's under a vertical merge, "" when the
\* cell is empty, the stripped text of the cell otherwise
packing_part_no(sheet, row, part_no_col, lookup) ==
    LET part_raw == sheet_cell(sheet, row, part_no_col)
    IN  IF is_cell_empty(part_raw) /\ is_merge_continuation(lookup, row, part_no_col)
        THEN StripText(CellStr(get_anchor_value(lookup, sheet, row, part_no_col)))
        ELSE IF is_cell_empty(part_raw) THEN ""
        ELSE StripText(CellStr(part_raw))

\* the filters: header continuation, pallet and summary rows
packing_row_filtered(part_no, nw_raw) ==
    \/ part_no # "" /\ ContainsPartNoLabel(part_no)
    \/ part_no # "" /\ ContainsPalletKeyword(part_no)
    \/ /\ nw_raw.kind = "str"
       /\ ~ is_cell_empty(nw_raw)
       /\ \/ ContainsPalletKeyword(StripText(nw_raw.text))
          \/ IsUnitLabel(StripText(nw_raw.text))

\* NW handling: ditto, merge, continuation, value
packing_nw(sheet, row, nw_col, lookup, part_no, part_empty, prev_part_no) ==
    LET nw_raw == sheet_cell(sheet, row, nw_col)
    IN  IF is_ditto(nw_raw)
        THEN [err |-> NoError, val |-> 0, first |-> FALSE]
        ELSE IF is_merge_continuation(lookup, row, nw_col)
        THEN [err |-> NoError, val |-> 0, first |-> FALSE]
        ELSE IF is_cell_empty(nw_raw)
        THEN IF prev_part_no # None /\ part_no = prev_part_no[1]
             THEN [err |-> NoError, val |-> 0, first |-> FALSE]
             ELSE IF part_empty /\ prev_part_no # None
             THEN [err |-> NoError, val |-> 0, first |-> FALSE]
             ELSE [err |-> FieldError("ERR_030", "nw", row), val |-> 0, first |-> TRUE]
        ELSE LET nw == packing_read_numeric_field(nw_raw, "nw", row)
             IN  [err |-> nw.err, val |-> nw.val, first |-> TRUE]

\* QTY handling: merge, continuation, value
packing_qty(sheet, row, qty_col, lookup, part_no, part_empty, prev_part_no) ==
    LET qty_raw == sheet_cell(sheet, row, qty_col)
    IN  IF is_merge_continuation(lookup, row, qty_col)
        THEN [err |-> NoError, val |-> 0]
        ELSE IF is_cell_empty(qty_raw)
        THEN IF prev_part_no # None /\ (part_no = prev_part_no[1] \/ part_empty)
             THEN [err |-> NoError, val |-> 0]
             ELSE [err |-> FieldError("ERR_030", "qty", row), val |-> 0]
        ELSE packing_read_numeric_field(qty_raw, "qty", row)

PackingItem(part_no, qty, nw, is_first_row_of_merge, row_number) ==
    [part_no |-> part_no, qty |-> qty, nw |-> nw,
     is_first_row_of_merge |-> is_first_row_of_merge, row_number |-> row_number]

\* variant: rows without quantity and weight are kept
zero_row_filter_off(qty, nw) == FALSE

\* if qty == Decimal("0") and nw == Decimal("0"): continue
zero_row_filter(qty, nw) == qty = 0 /\ nw = 0

\* the loop body below the stop conditions: the row is passed over ("skip"),
\* raises ("error") or yields an item ("item")
packing_row(sheet, row, fm, lookup, prev_part_no) ==
    LET part_no_col == DictGet(fm, "part_no", 0)
        part_empty == is_cell_empty(sheet_cell(sheet, row, part_no_col))
        part_no == packing_part_no(sheet, row, part_no_col, lookup)
        nw == packing_nw(sheet, row, DictGet(fm, "nw", 0), lookup, part_no,
                         part_empty, prev_part_no)
        qty == packing_qty(sheet, row, DictGet(fm, "qty", 0), lookup, part_no,
                           part_empty, prev_part_no)
        final_part_no == IF part_no = "" /\ part_empty /\ prev_part_no # None
                         THEN prev_part_no[1] ELSE part_no
        no_item == PackingItem("", 0, 0, TRUE, row)
    IN  IF packing_row_filtered(part_no, sheet_cell(sheet, row, DictGet(fm, "nw", 0)))
        THEN [outcome |-> "skip", err |-> NoError, item |-> no_item]
        ELSE IF nw.err # NoError
        THEN [outcome |-> "error", err |-> nw.err, item |-> no_item]
        ELSE IF qty.err # NoError
        THEN [outcome |-> "error", err |-> qty.err, item |-> no_item]
        ELSE IF part_no = "" /\ part_empty /\ prev_part_no = None
        THEN [outcome |-> "error", err |-> FieldError("ERR_030", "part_no", row),
              item |-> no_item]
        ELSE IF zero_row_filter(qty.val, nw.val)
        THEN [outcome |-> "skip", err |-> NoError, item |-> no_item]
        ELSE [outcome |-> "item", err |-> NoError,
              item |-> PackingItem(final_part_no, qty.val, nw.val, nw.first, row)]

\* merge_tracker.get_merge_range
get_merge_range(lookup, row, col) ==
    IF << row, col >> \in DOMAIN lookup THEN Some(lookup[<< row, col >>]) ELSE None

\* row_to_part: the part number of the last item of each row
row_to_part(packing_items) ==
    [r \in { packing_items[i].row_number : i \in DOMAIN packing_items } |->
        LET last == CHOOSE i \in DOMAIN packing_items :
                       /\ packing_items[i].row_number = r
                       /\ \A j \in DOMAIN packing_items :
                            packing_items[j].row_number = r => j <= i
        IN  packing_items[last].part_no]

\* parts_in_range of one merge range
parts_in_range(packing_items, mr) ==
    { row_to_part(packing_items)[r] :
        r \in (mr.min_row .. mr.max_row) \cap DOMAIN row_to_part(packing_items) }

\* the two nested loops of validate_merged_weights, from item i and column
\* number c (1: nw, 2: qty) on
RECURSIVE ValidateLoop(_, _, _, _, _, _, _)
ValidateLoop(packing_items, lookup, nw_col, qty_col, header_row, i, c) ==
    IF i > Len(packing_items) THEN NoError
    ELSE IF c > 2
    THEN ValidateLoop(packing_items, lookup, nw_col, qty_col, header_row, i + 1, 1)
    ELSE LET col == IF c = 1 THEN nw_col ELSE qty_col
             mr == get_merge_range(lookup, packing_items[i].row_number, col)
             next == ValidateLoop(packing_items, lookup, nw_col, qty_col,
                                  header_row, i, c + 1)
         IN  IF mr = None THEN next
             ELSE IF mr[1].min_row <= header_row THEN next
             ELSE IF Cardinality(parts_in_range(packing_items, mr[1])) > 1
             THEN ProcessingError("ERR_046",
                                  << IF col = nw_col THEN "nw" ELSE "qty",
                                     mr[1].min_row >>)
             ELSE next

\* variant: merges of the quantity column are not looked at
validate_merged_weights_nw_only(packing_items, lookup, column_map) ==
    ValidateLoop(packing_items, lookup, DictGet(column_map.field_map, "nw", 0),
                 DictGet(column_map.field_map, "nw", 0), column_map.header_row, 1, 1)

validate_merged_weights(packing_items, lookup, column_map) ==
    ValidateLoop(packing_items, lookup, DictGet(column_map.field_map, "nw", 0),
                 DictGet(column_map.field_map, "qty", 0), column_map.header_row, 1, 1)

\* extract_totals_helpers._parse_numeric_safe
parse_numeric_safe(value) ==
    IF value.kind = "str" THEN DecimalOf(strip_unit_suffix(StripText(value.text)))
    ELSE IF value.kind = "int" THEN Some(value.num)
    ELSE None

\* strategy 2 of detect_total_row on one row
implicit_total_row(sheet, row, part_col, nw_col, gw_col, lookup) ==
    LET nw_raw == sheet_cell(sheet, row, nw_col)
        gw_raw == sheet_cell(sheet, row, gw_col)
    IN  /\ is_cell_empty(sheet_cell(sheet, row, part_col))
        /\ ~ is_merge_continuation(lookup, row, part_col)
        /\ ~ is_cell_empty(nw_raw) /\ ~ is_cell_empty(gw_raw)
        /\ parse_numeric_safe(nw_raw) # None
        /\ parse_numeric_safe(gw_raw) # None
        /\ parse_numeric_safe(nw_raw)[1] > 0 /\ parse_numeric_safe(gw_raw)[1] > 0

\* the first row of start..end that satisfies Hit(row), None when there is none
FirstRowWhere(start, end, Hit(_)) ==
    IF \E r \in start..end : Hit(r)
    THEN Some(CHOOSE r \in start..end : Hit(r) /\ \A q \in start..(r - 1) : ~ Hit(q))
    ELSE None

detect_total_row(sheet, last_data_row, column_map, lookup, max_row) ==
    LET fm == column_map.field_map
        start == last_data_row + 1
        end == Min(last_data_row + TOTAL_ROW_WINDOW, max_row)
        by_keyword == FirstRowWhere(start, end, LAMBDA r : packing_keyword_stop(sheet, r))
        by_shape == FirstRowWhere(start, end,
                        LAMBDA r : implicit_total_row(sheet, r, DictGet(fm, "part_no", 0),
                                        DictGet(fm, "nw", 0), DictGet(fm, "gw", 0), lookup))
    IN  IF by_keyword # None THEN [err |-> NoError, row |-> by_keyword[1]]
        ELSE IF by_shape # None THEN [err |-> NoError, row |-> by_shape[1]]
        ELSE [err |-> ProcessingError("ERR_032", << last_data_row >>), row |-> 0]

(***************************************************************************)
(* FR-027  determine_file_status (src/autoconvert/validate.py) and the     *)
(* batch orchestration run_batch / process_file (src/autoconvert/batch.py).*)
(* What a phase of the pipeline does to a file is an input: it returns,    *)
(* with or without warnings, or raises one of the exceptions it can raise. *)
(***************************************************************************)
\* variant: warnings are looked at first
determine_file_status_warnings_first(errors, warnings) ==
    IF warnings # << >> THEN "Attention"
    ELSE IF errors # << >> THEN "Failed"
    ELSE "Success"

determine_file_status(errors, warnings) ==
    IF errors # << >> THEN "Failed"
    ELSE IF warnings # << >> THEN "Attention"
    ELSE "Success"

\* the order of file names under sorted(key=lambda p: p.name)
NameRank(name) ==
    CASE name = ".c.xlsx" -> 1
      [] name = "a.xlsx"  -> 2
      [] name = "b.xls"   -> 3
      [] name = "c.xlsx"  -> 4
      [] name = "~$b.xls" -> 5

\* not f.name.startswith("~$") and not f.name.startswith(".")
is_processable(name) == name \notin { "~$b.xls", ".c.xlsx" }

RECURSIVE SortedByName(_)
SortedByName(names) ==
    IF names = {} THEN << >>
    ELSE LET first == CHOOSE n \in names : \A o \in names : NameRank(n) <= NameRank(o)
         IN  << first >> \o SortedByName(names \ { first })

\* _scan_input_files
scan_input_files(data_dir) == SortedByName({ n \in data_dir : is_processable(n) })

\* _build_result, of which status, errors and warnings are kept
FileResult(filename, status, errors, warnings) ==
    [filename |-> filename, status |-> status, errors |-> errors, warnings |-> warnings]

\* sum(1 for r in file_results if r.status == status)
CountStatus(file_results, status) ==
    Cardinality({ i \in DOMAIN file_results : file_results[i].status = status })

\* variant: only the files that were not failed are counted in total_files
BatchResultOfProcessed(file_results) ==
    [total_files     |-> CountStatus(file_results, "Success")
                           + CountStatus(file_results, "Attention"),
     success_count   |-> CountStatus(file_results, "Success"),
     attention_count |-> CountStatus(file_results, "Attention"),
     failed_count    |-> CountStatus(file_results, "Failed"),
     file_results    |-> file_results]

BatchResultOf(file_results) ==
    [total_files     |-> Len(file_results),
     success_count   |-> CountStatus(file_results, "Success"),
     attention_count |-> CountStatus(file_results, "Attention"),
     failed_count    |-> CountStatus(file_results, "Failed"),
     file_results    |-> file_results]

(***************************************************************************)
(* State: one call of allocate_weights                                     *)
(***************************************************************************)
VARIABLES
    pc,                 \* position in allocate_weights
    invoice_items,      \* list[InvoiceItem]: part_no, qty, allocated_weight
    packing_items,      \* list[PackingItem]: part_no, qty, nw
    total_nw,           \* packing_totals.total_nw
    total_nw_precision, \* packing_totals.total_nw_precision
    agg_nw,             \* result of _aggregate_packing
    agg_qty,
    precision,          \* _determine_precision: precision chosen by sum matching
    optimal_precision,  \* result of _determine_precision
    rounded_weights,    \* result of _round_and_adjust
    error               \* the exception that left allocate_weights, if any

allocVars == << pc, invoice_items, packing_items, total_nw, total_nw_precision,
                agg_nw, agg_qty, precision, optimal_precision, rounded_weights, error >>

(***************************************************************************)
(* State: a worksheet and the MergeTracker constructed on it               *)
(***************************************************************************)
VARIABLES
    mt_pc,              \* position in MergeTracker.__init__, then "ready"
    merged_cells,       \* sheet.merged_cells.ranges, the live collection
    sheet_cells,        \* the value of every cell of the sheet
    raw_ranges,         \* __init__: the snapshot list
    ranges,             \* self._ranges
    cell_to_range,      \* self._cell_to_range
    unmerge_i,          \* __init__: ranges of the snapshot already unmerged
    mt_query            \* the last query made of the tracker and its answers

mergeVars == << mt_pc, merged_cells, sheet_cells, raw_ranges, ranges,
                cell_to_range, unmerge_i, mt_query >>

(***************************************************************************)
(* State: one call of detect_header_row                                    *)
(***************************************************************************)
VARIABLES
    hd_pc,              \* "call", then "returned" or "failed"
    hd_sheet,           \* the rows of the sheet that hold cells
    hd_sheet_type,      \* "invoice" or "packing"
    hd_config,          \* AppConfig: invoice_min_headers, packing_min_headers
    hd_row,             \* the row returned
    hd_error            \* the exception raised, if any

headerVars == << hd_pc, hd_sheet, hd_sheet_type, hd_config, hd_row, hd_error >>

(***************************************************************************)
(* State: one call of map_columns                                          *)
(***************************************************************************)
VARIABLES
    mc_pc,              \* position in map_columns, then "returned" or "failed"
    mc_sheet,           \* the rows of the sheet that hold cells
    mc_header_row,      \* header_row, from detect_header_row
    mc_sheet_type,      \* "invoice" or "packing"
    mc_config,          \* AppConfig: invoice_columns, packing_columns
    field_map,          \* map_columns: field_map
    effective_header_row,
    mc_result,          \* the ColumnMapping returned
    mc_error            \* the exception raised, if any

columnVars == << mc_pc, mc_sheet, mc_header_row, mc_sheet_type, mc_config,
                 field_map, effective_header_row, mc_result, mc_error >>

(***************************************************************************)
(* State: one call of extract_inv_no_from_header.                          *)
(***************************************************************************)
VARIABLES
    inv_pc,       \* "idle", "call" or "returned"
    inv_sheet,    \* the worksheet: cell (row, column) -> value, on the cells that hold one
    inv_config,   \* the AppConfig, of which inv_no_cell is read
    inv_no        \* the returned invoice number, None when absent

invNoVars == << inv_pc, inv_sheet, inv_config, inv_no >>

\* no invoice-number search under consideration
InvNoIdle ==
    /\ inv_pc = "idle"
    /\ inv_sheet = << >>
    /\ inv_config = << >>
    /\ inv_no = None

(***************************************************************************)
(* State: one call of extract_invoice_items, at the head of its row loop.  *)
(***************************************************************************)
VARIABLES
    ei_pc,                 \* "idle", "loop", "returned" or "failed"
    ei_sheet,              \* the unmerged worksheet: cell (row, column) -> value
    ei_column_map,         \* the ColumnMapping of the sheet
    ei_merge_tracker,      \* _cell_to_range of the MergeTracker
    ei_inv_no,             \* the invoice number passed in, None when absent
    ei_max_row,            \* max_row
    ei_row,                \* the loop variable row
    ei_items,              \* items
    first_data_extracted,
    ei_error               \* the exception raised, if any

extractVars == << ei_pc, ei_sheet, ei_column_map, ei_merge_tracker, ei_inv_no,
                  ei_max_row, ei_row, ei_items, first_data_extracted, ei_error >>

\* no extraction under consideration
ExtractIdle ==
    /\ ei_pc = "idle"
    /\ ei_sheet = << >>
    /\ ei_column_map = << >>
    /\ ei_merge_tracker = << >>
    /\ ei_inv_no = None
    /\ ei_max_row = 0
    /\ ei_row = 0
    /\ ei_items = << >>
    /\ first_data_extracted = FALSE
    /\ ei_error = NoError

(***************************************************************************)
(* State: phase 5 of process_file, the conversions of the invoice items.   *)
(***************************************************************************)
VARIABLES
    tr_pc,          \* "idle", "start", "currency" or "country"
    tr_heap,        \* the InvoiceItem objects, by identity
    tr_config,      \* the AppConfig, of which the two lookup tables are read
    tr_items,       \* invoice_items of process_file: the current list
    tr_warnings     \* warnings of process_file

transformVars == << tr_pc, tr_heap, tr_config, tr_items, tr_warnings >>

\* no conversion under consideration
TransformIdle ==
    /\ tr_pc = "idle"
    /\ tr_heap = << >>
    /\ tr_config = << >>
    /\ tr_items = << >>
    /\ tr_warnings = << >>

(***************************************************************************)
(* State: phase 4b-4d of process_file on the packing sheet:                *)
(* extract_packing_items, validate_merged_weights, detect_total_row.       *)
(***************************************************************************)
VARIABLES
    pk_pc,                 \* "idle", "loop", "extracted", "validated", "detected", "failed"
    pk_sheet,              \* the unmerged worksheet: cell (row, column) -> value
    pk_column_map,         \* the ColumnMapping of the sheet
    pk_merge_tracker,      \* _cell_to_range of the MergeTracker
    pk_max_row,            \* sheet.max_row
    pk_row,                \* the loop variable row
    pk_items,              \* items
    last_data_row,
    has_first_data_row,
    prev_part_no,          \* None until an item was appended
    pk_total_row,          \* total_row of process_file, 0 until detected
    pk_error               \* the exception raised, if any

packingVars == << pk_pc, pk_sheet, pk_column_map, pk_merge_tracker, pk_max_row,
                  pk_row, pk_items, last_data_row, has_first_data_row,
                  prev_part_no, pk_total_row, pk_error >>

\* no packing sheet under consideration
PackingIdle ==
    /\ pk_pc = "idle"
    /\ pk_sheet = << >>
    /\ pk_column_map = << >>
    /\ pk_merge_tracker = << >>
    /\ pk_max_row = 0
    /\ pk_row = 0
    /\ pk_items = << >>
    /\ last_data_row = 0
    /\ has_first_data_row = FALSE
    /\ prev_part_no = None
    /\ pk_total_row = 0
    /\ pk_error = NoError

(***************************************************************************)
(* State: one call of run_batch and the call of process_file it is in.     *)
(***************************************************************************)
VARIABLES
    bt_pc,             \* "idle", "scan", "call", the phase of process_file, "return", "done"
    bt_data_dir,       \* the names of the files in data/
    bt_finished,       \* the names of the files write_template was called for
    bt_files,          \* files of run_batch
    bt_idx,            \* idx of run_batch
    bt_errors,         \* errors of process_file
    bt_warnings,       \* warnings of process_file
    bt_status,         \* status of process_file
    bt_file_results,   \* file_results of run_batch
    bt_result          \* the BatchResult returned, None before

batchVars == << bt_pc, bt_data_dir, bt_finished, bt_files, bt_idx, bt_errors,
                bt_warnings, bt_status, bt_file_results, bt_result >>

\* no batch under consideration
BatchIdle ==
    /\ bt_pc = "idle"
    /\ bt_data_dir = {}
    /\ bt_finished = {}
    /\ bt_files = << >>
    /\ bt_idx = 0
    /\ bt_errors = << >>
    /\ bt_warnings = << >>
    /\ bt_status = ""
    /\ bt_file_results = << >>
    /\ bt_result = None

(***************************************************************************)
(* Each specification below exercises one component; the state of the      *)
(* others rests idle.                                                      *)
(***************************************************************************)
\* no allocation under consideration
AllocIdle ==
    /\ pc = "idle"
    /\ invoice_items = << >>
    /\ packing_items = << >>
    /\ total_nw = 0
    /\ total_nw_precision = 0
    /\ agg_nw = << >>
    /\ agg_qty = << >>
    /\ precision = 0
    /\ optimal_precision = 0
    /\ rounded_weights = << >>
    /\ error = NoError

\* no worksheet under consideration
MergeIdle ==
    /\ mt_pc = "idle"
    /\ merged_cells = {}
    /\ sheet_cells = << >>
    /\ raw_ranges = << >>
    /\ ranges = << >>
    /\ cell_to_range = << >>
    /\ unmerge_i = 0
    /\ mt_query = None

\* no header detection under consideration
HeaderIdle ==
    /\ hd_pc = "idle"
    /\ hd_sheet = << >>
    /\ hd_sheet_type = ""
    /\ hd_config = << >>
    /\ hd_row = None
    /\ hd_error = NoError

\* no column mapping under consideration
ColumnIdle ==
    /\ mc_pc = "idle"
    /\ mc_sheet = << >>
    /\ mc_header_row = 0
    /\ mc_sheet_type = ""
    /\ mc_config = << >>
    /\ field_map = << >>
    /\ effective_header_row = 0
    /\ mc_result = None
    /\ mc_error = NoError

vars == << allocVars, mergeVars, headerVars, columnVars, invNoVars, extractVars, transformVars, packingVars, batchVars >>

\* the state outside each component
besidesAlloc == << mergeVars, headerVars, columnVars, invNoVars, extractVars, transformVars, packingVars, batchVars >>

besidesMerge == << allocVars, headerVars, columnVars, invNoVars, extractVars, transformVars, packingVars, batchVars >>

besidesHeader == << allocVars, mergeVars, columnVars, invNoVars, extractVars, transformVars, packingVars, batchVars >>

besidesColumn == << allocVars, mergeVars, headerVars, invNoVars, extractVars, transformVars, packingVars, batchVars >>

besidesInvNo == << allocVars, mergeVars, headerVars, columnVars, extractVars, transformVars, packingVars, batchVars >>

besidesExtract == << allocVars, mergeVars, headerVars, columnVars, invNoVars, transformVars, packingVars, batchVars >>

besidesTransform == << allocVars, mergeVars, headerVars, columnVars, invNoVars, extractVars, packingVars, batchVars >>

besidesPacking == << allocVars, mergeVars, headerVars, columnVars, invNoVars, extractVars, transformVars, batchVars >>

besidesBatch == << allocVars, mergeVars, headerVars, columnVars, invNoVars, extractVars, transformVars, packingVars >>

IdleBesidesAlloc == MergeIdle /\ HeaderIdle /\ ColumnIdle /\ InvNoIdle /\ ExtractIdle /\ TransformIdle /\ PackingIdle /\ BatchIdle

IdleBesidesMerge == AllocIdle /\ HeaderIdle /\ ColumnIdle /\ InvNoIdle /\ ExtractIdle /\ TransformIdle /\ PackingIdle /\ BatchIdle

IdleBesidesHeader == AllocIdle /\ MergeIdle /\ ColumnIdle /\ InvNoIdle /\ ExtractIdle /\ TransformIdle /\ PackingIdle /\ BatchIdle

IdleBesidesColumn == AllocIdle /\ MergeIdle /\ HeaderIdle /\ InvNoIdle /\ ExtractIdle /\ TransformIdle /\ PackingIdle /\ BatchIdle

IdleBesidesInvNo == AllocIdle /\ MergeIdle /\ HeaderIdle /\ ColumnIdle /\ ExtractIdle /\ TransformIdle /\ PackingIdle /\ BatchIdle

IdleBesidesExtract == AllocIdle /\ MergeIdle /\ HeaderIdle /\ ColumnIdle /\ InvNoIdle /\ TransformIdle /\ PackingIdle /\ BatchIdle

IdleBesidesTransform == AllocIdle /\ MergeIdle /\ HeaderIdle /\ ColumnIdle /\ InvNoIdle /\ ExtractIdle /\ PackingIdle /\ BatchIdle

IdleBesidesPacking == AllocIdle /\ MergeIdle /\ HeaderIdle /\ ColumnIdle /\ InvNoIdle /\ ExtractIdle /\ TransformIdle /\ BatchIdle

IdleBesidesBatch == AllocIdle /\ MergeIdle /\ HeaderIdle /\ ColumnIdle /\ InvNoIdle /\ ExtractIdle /\ TransformIdle /\ PackingIdle

(***************************************************************************)
(* Inputs.  Each profile is a family of workbooks: the part numbers, net   *)
(* weights, quantities, totals and detected precisions that occur in it.   *)
(***************************************************************************)
A == << "A" >>

B == << "B" >>

Profiles == {
    \* two parts whose weights need a third decimal
    [parts |-> {A, B}, nws |-> {3335000, 6665000}, pqtys |-> {10},
     iparts |-> {A, B}, iqtys |-> {10},
     totals |-> {10000000, 10010000}, precs |-> {1, 2, 5, 6}],
    \* part numbers with surrounding blanks, parts missing on either side
    [parts |-> {A, B, << " ", "A" >>}, nws |-> {10000}, pqtys |-> {1},
     iparts |-> {A, B, << "A", " " >>}, iqtys |-> {1},
     totals |-> {10000, 20000}, precs |-> {2}],
    \* continuation rows with zero weight or zero quantity
    [parts |-> {A, B}, nws |-> {0, 10000}, pqtys |-> {0, 1},
     iparts |-> {A}, iqtys |-> {1},
     totals |-> {10000}, precs |-> {2}],
    \* stated total below or above the sum of the rows
    [parts |-> {A, B}, nws |-> {10000, 50000, 80000}, pqtys |-> {1},
     iparts |-> {A, B}, iqtys |-> {1},
     totals |-> {50000, 60000}, precs |-> {2}],
    \* totals at the edge of the 0.1 tolerance
    [parts |-> {A}, nws |-> {110000}, pqtys |-> {1},
     iparts |-> {A}, iqtys |-> {1},
     totals |-> {9999, 10000, 110000, 210000, 210001}, precs |-> {2}],
    \* very light parts
    [parts |-> {A, B}, nws |-> {4, 400, 10000}, pqtys |-> {1},
     iparts |-> {A, B}, iqtys |-> {1},
     totals |-> {10000, 10400}, precs |-> {2, 5}],
    \* one part split over several invoice lines
    [parts |-> {A}, nws |-> {180000, 1000000}, pqtys |-> {1},
     iparts |-> {A}, iqtys |-> {3, 7, 11, 13},
     totals |-> {180000, 1000000}, precs |-> {2}],
    \* invoice lines with quantity zero
    [parts |-> {A}, nws |-> {10000}, pqtys |-> {1},
     iparts |-> {A, B}, iqtys |-> {0, 1},
     totals |-> {10000}, precs |-> {2}]
}

PackingItemsOf(pr) ==
    SeqsUpTo([part_no : pr.parts, qty : pr.pqtys, nw : pr.nws], MaxPacking)

InvoiceItemsOf(pr) ==
    SeqsUpTo([part_no : pr.iparts, qty : pr.iqtys, allocated_weight : {None}], MaxInvoice)

Init ==
    /\ pc = "start"
    /\ \E pr \in Profiles :
          /\ packing_items \in PackingItemsOf(pr)
          /\ invoice_items \in InvoiceItemsOf(pr)
          /\ total_nw \in pr.totals
          /\ total_nw_precision \in pr.precs
    /\ agg_nw = << >>
    /\ agg_qty = << >>
    /\ precision = 0
    /\ optimal_precision = 0
    /\ rounded_weights = << >>
    /\ error = NoError
    /\ IdleBesidesAlloc

(***************************************************************************)
(* allocate_weights, one action per stage                                  *)
(***************************************************************************)
Raise(e) == pc' = "failed" /\ error' = e

Aggregate ==
    /\ pc = "start"
    /\ LET r == aggregate_packing(packing_items)
       IN  IF r.err # NoError
           THEN /\ Raise(r.err)
                /\ UNCHANGED << agg_nw, agg_qty >>
           ELSE /\ pc' = "aggregated"
                /\ agg_nw' = r.agg_nw
                /\ agg_qty' = r.agg_qty
                /\ UNCHANGED error
    /\ UNCHANGED << invoice_items, packing_items, total_nw, total_nw_precision,
                    precision, optimal_precision, rounded_weights >>
    /\ UNCHANGED besidesAlloc

ValidatePackingSum ==
    /\ pc = "aggregated"
    /\ LET e == validate_packing_sum(agg_nw, total_nw)
       IN  IF e # NoError THEN Raise(e)
           ELSE pc' = "validated" /\ UNCHANGED error
    /\ UNCHANGED << invoice_items, packing_items, total_nw, total_nw_precision,
                    agg_nw, agg_qty, precision, optimal_precision, rounded_weights >>
    /\ UNCHANGED besidesAlloc

SumMatching ==
    /\ pc = "validated"
    /\ pc' = "summatched"
    /\ precision' = sum_matching(total_nw, total_nw_precision, agg_nw)
    /\ UNCHANGED << invoice_items, packing_items, total_nw, total_nw_precision,
                    agg_nw, agg_qty, optimal_precision, rounded_weights, error >>
    /\ UNCHANGED besidesAlloc

ZeroCheckEscalation ==
    /\ pc = "summatched"
    /\ LET r == zero_check_escalation(precision, agg_nw)
       IN  IF r.err # NoError
           THEN Raise(r.err) /\ UNCHANGED optimal_precision
           ELSE /\ pc' = "precision"
                /\ optimal_precision' = r.precision
                /\ UNCHANGED error
    /\ UNCHANGED << invoice_items, packing_items, total_nw, total_nw_precision,
                    agg_nw, agg_qty, precision, rounded_weights >>
    /\ UNCHANGED besidesAlloc

RoundAndAdjust ==
    /\ pc = "precision"
    /\ LET r == round_and_adjust(agg_nw, optimal_precision, total_nw)
       IN  IF r.err # NoError
           THEN Raise(r.err) /\ UNCHANGED rounded_weights
           ELSE /\ pc' = "rounded"
                /\ rounded_weights' = r.rounded
                /\ UNCHANGED error
    /\ UNCHANGED << invoice_items, packing_items, total_nw, total_nw_precision,
                    agg_nw, agg_qty, precision, optimal_precision >>
    /\ UNCHANGED besidesAlloc

ProportionalAllocate ==
    /\ pc = "rounded"
    /\ LET r == proportional_allocate(rounded_weights, invoice_items, optimal_precision)
       IN  /\ invoice_items' = r.items
           /\ IF r.err # NoError THEN Raise(r.err)
              ELSE pc' = "allocated" /\ UNCHANGED error
    /\ UNCHANGED << packing_items, total_nw, total_nw_precision,
                    agg_nw, agg_qty, precision, optimal_precision, rounded_weights >>
    /\ UNCHANGED besidesAlloc

ValidateFinalSum ==
    /\ pc = "allocated"
    /\ LET e == validate_final_sum(invoice_items, total_nw)
       IN  IF e # NoError THEN Raise(e)
           ELSE pc' = "done" /\ UNCHANGED error
    /\ UNCHANGED << invoice_items, packing_items, total_nw, total_nw_precision,
                    agg_nw, agg_qty, precision, optimal_precision, rounded_weights >>
    /\ UNCHANGED besidesAlloc

Next ==
    \/ Aggregate
    \/ ValidatePackingSum
    \/ SumMatching
    \/ ZeroCheckEscalation
    \/ RoundAndAdjust
    \/ ProportionalAllocate
    \/ ValidateFinalSum

Spec == Init /\ [][Next]_vars

(***************************************************************************)
(* Worksheets.  A sheet has MaxRow rows and MaxCol columns and at most     *)
(* MaxMerges merged ranges; as in a workbook written by Excel, a merged    *)
(* range has at least two cells and no two merged ranges share a cell.     *)
(* openpyxl keeps the value of a merged range in its first cell: every     *)
(* other cell of it is a MergedCell, whose value is None.                  *)
(***************************************************************************)
Grid == (1 .. MaxRow) \X (1 .. MaxCol)

Ranges ==
    { MergeRange(r1, r2, c1, c2) :
          << r1, r2, c1, c2 >> \in
              { q \in (1 .. MaxRow) \X (1 .. MaxRow) \X (1 .. MaxCol) \X (1 .. MaxCol) :
                    q[1] <= q[2] /\ q[3] <= q[4] /\ (q[1] < q[2] \/ q[3] < q[4]) } }

Disjoint(S) == \A a, b \in S : a # b => CellsOf(a) \cap CellsOf(b) = {}

RECURSIVE MergedSets(_)
MergedSets(n) ==
    IF n = 0 THEN { {} }
    ELSE LET P == MergedSets(n - 1)
         IN  P \cup { S \cup {rng} : S \in P, rng \in Ranges }

\* what the cells hold: a value naming the cell, or nothing
Fillings ==
    { [cell \in Grid |-> cell],
      [cell \in Grid |-> IF (cell[1] + cell[2]) % 2 = 0 THEN None ELSE cell],
      [cell \in Grid |-> None] }

\* the orders in which list() may enumerate a collection
ListsOf(S) ==
    { l \in [1 .. Cardinality(S) -> S] : \A i, j \in DOMAIN l : i # j => l[i] # l[j] }

InitMerge ==
    /\ mt_pc = "new"
    /\ merged_cells \in { S \in MergedSets(MaxMerges) : Disjoint(S) }
    /\ \E f \in Fillings :
          sheet_cells =
              [cell \in Grid |->
                  IF \E rng \in merged_cells :
                         cell \in CellsOf(rng) /\ cell # << rng.min_row, rng.min_col >>
                  THEN None ELSE f[cell]]
    /\ raw_ranges = << >>
    /\ ranges = << >>
    /\ cell_to_range = << >>
    /\ unmerge_i = 0
    /\ mt_query = None
    /\ IdleBesidesMerge

(***************************************************************************)
(* MergeTracker.__init__, one action per loop iteration, and the queries   *)
(***************************************************************************)
\* raw_ranges = list(sheet.merged_cells.ranges)
Snapshot ==
    /\ mt_pc = "new"
    /\ raw_ranges' \in ListsOf(merged_cells)
    /\ mt_pc' = IF merged_cells = {} THEN "ready" ELSE "capture"
    /\ UNCHANGED << merged_cells, sheet_cells, ranges, cell_to_range, unmerge_i, mt_query >>
    /\ UNCHANGED besidesMerge

\* for rng in raw_ranges: append the MergeRange and enter its cells
CaptureRange ==
    /\ mt_pc = "capture"
    /\ LET rng == raw_ranges[Len(ranges) + 1]
           merge_range == MergeRange(rng.min_row, rng.max_row, rng.min_col, rng.max_col)
       IN  /\ ranges' = Append(ranges, merge_range)
           /\ cell_to_range' = capture_range(cell_to_range, merge_range)
    /\ mt_pc' = IF Len(ranges) + 1 = Len(raw_ranges) THEN "unmerge" ELSE "capture"
    /\ UNCHANGED << merged_cells, sheet_cells, raw_ranges, unmerge_i, mt_query >>
    /\ UNCHANGED besidesMerge

\* for rng in raw_ranges: sheet.unmerge_cells(str(rng))
UnmergeRange ==
    /\ mt_pc = "unmerge"
    /\ LET rng == raw_ranges[unmerge_i + 1]
       IN  IF rng \notin merged_cells
           THEN /\ mt_pc' = "failed"
                /\ UNCHANGED << merged_cells, sheet_cells, unmerge_i >>
           ELSE /\ merged_cells' = merged_cells \ {rng}
                /\ sheet_cells' = unmerge_cells(sheet_cells, rng)
                /\ unmerge_i' = unmerge_i + 1
                /\ mt_pc' = IF unmerge_i + 1 = Len(raw_ranges) THEN "ready" ELSE "unmerge"
    /\ UNCHANGED << raw_ranges, ranges, cell_to_range, mt_query >>
    /\ UNCHANGED besidesMerge

\* a caller asks about one cell
Query ==
    /\ mt_pc = "ready"
    /\ \E cell \in Grid :
          mt_query' =
              [row |-> cell[1], col |-> cell[2],
               is_merge_anchor  |-> is_merge_anchor(cell_to_range, cell[1], cell[2]),
               is_in_merge      |-> is_in_merge(cell_to_range, cell[1], cell[2]),
               get_anchor_value |->
                   get_anchor_value(cell_to_range, sheet_cells, cell[1], cell[2])]
    /\ UNCHANGED << mt_pc, merged_cells, sheet_cells, raw_ranges, ranges,
                    cell_to_range, unmerge_i >>
    /\ UNCHANGED besidesMerge

NextMerge ==
    \/ Snapshot
    \/ CaptureRange
    \/ UnmergeRange
    \/ Query

SpecMerge == InitMerge /\ [][NextMerge]_vars

(***************************************************************************)
(* Sheets for header detection.  The first MaxScanRows rows of the scan     *)
(* window hold cells, each row one of RowKinds, and so may the row above   *)
(* the window; all other rows are empty.                                   *)
(***************************************************************************)
RowKinds ==
    { << >>,
      \* header keywords
      << Some("Part No"), Some("Qty"), Some("Price") >>,
      \* plain text
      << Some("Company"), Some("Notes"), Some("Info") >>,
      \* contact details
      << Some("Company"), Some("Tel: 123"), Some("Fax: 456") >>,
      \* a data row
      << Some("PT001"), Some("10"), Some("2.5") >>,
      \* contact details beside header keywords
      << Some("Tel: 123"), Some("Qty"), Some("Price") >>,
      \* a keyword beside two numbers
      << Some("Qty"), Some("10"), Some("2.5") >>,
      \* empty and blank cells before two headers
      << None, Some("  "), Some(" Qty "), Some("Price") >>,
      \* placeholder labels of unnamed columns
      << Some("Unnamed: 0"), Some("Unnamed: 1"), Some("Notes"), Some("Info") >> }

\* the row above the window: empty, or a row of header keywords
AboveKinds == { << >>, << Some("Part No"), Some("Qty"), Some("Price") >> }

WindowRows == HEADER_SCAN_ROW_START .. (HEADER_SCAN_ROW_START + MaxScanRows - 1)

ContentRows == { HEADER_SCAN_ROW_START - 1 } \cup WindowRows

Configs == { [invoice_min_headers |-> 3, packing_min_headers |-> 2] }

InitHeader ==
    /\ hd_pc = "call"
    /\ \E above \in AboveKinds, window \in [WindowRows -> RowKinds] :
          hd_sheet = [row \in ContentRows |->
                         IF row \in WindowRows THEN window[row] ELSE above]
    /\ hd_sheet_type \in { "invoice", "packing" }
    /\ hd_config \in Configs
    /\ hd_row = None
    /\ hd_error = NoError
    /\ IdleBesidesHeader

DetectHeaderRow ==
    /\ hd_pc = "call"
    /\ LET r == detect_header_row(hd_sheet, hd_sheet_type, hd_config)
       IN  /\ hd_pc' = IF r.err # NoError THEN "failed" ELSE "returned"
           /\ hd_row' = r.row
           /\ hd_error' = r.err
    /\ UNCHANGED << hd_sheet, hd_sheet_type, hd_config >>
    /\ UNCHANGED besidesHeader

NextHeader == DetectHeaderRow

SpecHeader == InitHeader /\ [][NextHeader]_vars

(***************************************************************************)
(* Sheets and configuration for column mapping.  The header row is one of  *)
(* HeaderKinds; the MaxMapRows rows below it are each one of BelowKinds.   *)
(***************************************************************************)
FieldPattern(patterns, required) == [patterns |-> patterns, required |-> required]

invoice_columns ==
    << [key |-> "part_no",  val |-> FieldPattern({ "part no", "part no / po no" }, TRUE)],
       [key |-> "po_no",    val |-> FieldPattern({ "po no", "part no / po no" }, FALSE)],
       [key |-> "qty",      val |-> FieldPattern({ "qty" }, TRUE)],
       [key |-> "price",    val |-> FieldPattern({ "price", "unit price" }, TRUE)],
       [key |-> "amount",   val |-> FieldPattern({ "amount" }, TRUE)],
       [key |-> "currency", val |-> FieldPattern({ "currency", "Currency", "usd", "USD" }, TRUE)] >>

packing_columns ==
    << [key |-> "part_no",  val |-> FieldPattern({ "part no", "part no / po no" }, TRUE)],
       [key |-> "qty",      val |-> FieldPattern({ "qty" }, TRUE)],
       [key |-> "nw",       val |-> FieldPattern({ "n.w." }, TRUE)] >>

HeaderKinds ==
    { << >>,
      << Some("Part No"), Some("Qty"), Some("Price"), Some("Amount"), Some("Currency") >>,
      \* no currency column
      << Some("Part No"), Some("Qty"), Some("Price"), Some("Amount") >>,
      \* the price header one row down
      << Some("Part No"), Some("Qty"), Some("N.W."), Some("Amount") >>,
      \* one header cell naming two fields
      << Some("Part No / PO No"), Some("Qty"), Some("Price"), Some("Amount"), Some("Currency") >>,
      \* empty and blank cells, a header repeated
      << None, Some("  "), Some("Part No"), Some(" Qty "), Some("Qty") >>,
      \* price and amount over two columns each, once merged
      << Some("Part No"), Some("Qty"), Some("Price"), None, Some("Amount"), None >> }

BelowKinds ==
    { << >>,
      \* a sub-header
      << None, None, Some("Unit  Price") >>,
      \* data rows: with a currency column, with the currency beside each
      \* value, without currency
      << Some("PT001"), Some("10"), Some("2.5"), Some("25"), Some("USD") >>,
      << Some("PT001"), Some("10"), Some("USD"), Some("2.5"), Some("USD"), Some("25") >>,
      << Some("PT001"), Some("10"), Some("2.5"), Some("25") >> }

InitColumns ==
    /\ mc_pc = "call"
    /\ mc_header_row = HEADER_SCAN_ROW_START
    /\ \E header \in HeaderKinds,
          below \in [(mc_header_row + 1) .. (mc_header_row + MaxMapRows) -> BelowKinds] :
          mc_sheet = [row \in mc_header_row .. (mc_header_row + MaxMapRows) |->
                         IF row = mc_header_row THEN header ELSE below[row]]
    /\ mc_sheet_type \in { "invoice", "packing" }
    /\ mc_config = [invoice_columns |-> invoice_columns, packing_columns |-> packing_columns]
    /\ field_map = << >>
    /\ effective_header_row = 0
    /\ mc_result = None
    /\ mc_error = NoError
    /\ IdleBesidesColumn

(***************************************************************************)
(* map_columns, one action per step                                        *)
(***************************************************************************)
field_defs ==
    IF mc_sheet_type = "invoice" THEN mc_config.invoice_columns
    ELSE mc_config.packing_columns

\* Step 1: primary header row scan
PrimaryScan ==
    /\ mc_pc = "call"
    /\ mc_pc' = "scanned"
    /\ field_map' = scan_row_for_fields(mc_sheet, mc_header_row, field_defs, << >>)
    /\ effective_header_row' = mc_header_row
    /\ UNCHANGED << mc_sheet, mc_header_row, mc_sheet_type, mc_config, mc_result, mc_error >>
    /\ UNCHANGED besidesColumn

\* Step 2: sub-header fallback
SubHeaderFallback ==
    /\ mc_pc = "scanned"
    /\ mc_pc' = "subheader"
    /\ LET r == sub_header_fallback(mc_sheet, mc_header_row, field_defs, field_map)
       IN  /\ field_map' = r.field_map
           /\ effective_header_row' = r.effective_header_row
    /\ UNCHANGED << mc_sheet, mc_header_row, mc_sheet_type, mc_config, mc_result, mc_error >>
    /\ UNCHANGED besidesColumn

\* Step 3: currency data-row fallback, invoice only
CurrencyFallback ==
    /\ mc_pc = "subheader"
    /\ mc_pc' = "currency"
    /\ field_map' =
           IF mc_sheet_type = "invoice" /\ ~ DictHas(field_map, "currency")
           THEN currency_data_row_fallback(mc_sheet, mc_header_row, field_map, mc_config)
           ELSE field_map
    /\ UNCHANGED << mc_sheet, mc_header_row, mc_sheet_type, mc_config,
                    effective_header_row, mc_result, mc_error >>
    /\ UNCHANGED besidesColumn

\* Step 4: the check for missing required fields, and the return
CheckMissing ==
    /\ mc_pc = "currency"
    /\ LET still_missing == get_missing_required(field_defs, field_map)
       IN  IF still_missing # << >>
           THEN /\ mc_pc' = "failed"
                /\ mc_error' = ProcessingError("ERR_020", still_missing)
                /\ UNCHANGED mc_result
           ELSE /\ mc_pc' = "returned"
                /\ mc_result' = Some(ColumnMapping(mc_sheet_type, field_map, mc_header_row,
                                                   effective_header_row))
                /\ UNCHANGED mc_error
    /\ UNCHANGED << mc_sheet, mc_header_row, mc_sheet_type, mc_config,
                    field_map, effective_header_row >>
    /\ UNCHANGED besidesColumn

NextColumns ==
    \/ PrimaryScan
    \/ SubHeaderFallback
    \/ CurrencyFallback
    \/ CheckMissing

SpecColumns == InitColumns /\ [][NextColumns]_vars

(***************************************************************************)
(* Specification of the invoice-number search: a worksheet with a few      *)
(* cells filled in and around the header window, searched once.            *)
(***************************************************************************)
InvPositions ==
    { << 1, 1 >>, << 1, 2 >>, << 1, 4 >>, << 1, 5 >>, << 2, 1 >>, << 3, 1 >>,
      << INV_NO_SCAN_ROW_END, MAP_COL_COUNT >>, << INV_NO_SCAN_ROW_END + 1, 1 >> }

InvTexts ==
    { "INVOICE NO: A123", "INVOICE NO: 2024-01-15", "Invoice No:",
      "A456", "2024-01-15", "INV#789", "  " }

\* the inv_no_cell section: one capture pattern, one label pattern, and the
\* exclude patterns for dates and for the label itself
InvNoCellConfig ==
    [ patterns |->
        << << [ key |-> "INVOICE NO: A123",       val |-> Some("A123") ],
              [ key |-> "INVOICE NO: 2024-01-15", val |-> Some("2024-01-15") ] >> >>,
      label_patterns   |-> { "Invoice No:" },
      exclude_patterns |-> { "2024-01-15", "Invoice No:", "INVOICE NO: A123",
                             "INVOICE NO: 2024-01-15" } ]

InitInvNo ==
    /\ inv_pc = "call"
    /\ \E S \in SUBSET InvPositions :
          /\ Cardinality(S) <= MaxInvCells
          /\ inv_sheet \in [ S -> InvTexts ]
    /\ inv_config = [ inv_no_cell |-> InvNoCellConfig ]
    /\ inv_no = None
    /\ IdleBesidesInvNo

ExtractInvNo ==
    /\ inv_pc = "call"
    /\ inv_no' = extract_inv_no_from_header(inv_sheet, inv_config)
    /\ inv_pc' = "returned"
    /\ UNCHANGED << inv_sheet, inv_config >>
    /\ UNCHANGED besidesInvNo

NextInvNo == ExtractInvNo

SpecInvNo == InitInvNo /\ [][NextInvNo]_vars

(***************************************************************************)
(* Specification of the invoice extraction: a sheet of a few rows below    *)
(* the header, each of one of the kinds of row an invoice sheet holds,     *)
(* with at most one merged range, already unmerged.                        *)
(***************************************************************************)
SheetCols == STOP_SCAN_COL_COUNT + 1

InvoiceFieldMap ==
    << [key |-> "part_no", val |-> 1], [key |-> "po_no", val |-> 2],
       [key |-> "qty", val |-> 3], [key |-> "price", val |-> 4],
       [key |-> "amount", val |-> 5], [key |-> "currency", val |-> 6],
       [key |-> "coo", val |-> 7], [key |-> "brand", val |-> 8],
       [key |-> "brand_type", val |-> 9], [key |-> "model", val |-> 10] >>

DataRowCells ==
    << Str("PT001"), Str("PO1"), Number(10), Number(3), Number(30), Str("USD"),
       Str("CN"), Str("BrandX"), Str("TypeA"), Str("M1"), EmptyCell >>

BlankRowCells == [col \in 1..SheetCols |-> EmptyCell]

With(cells, col, value) == [cells EXCEPT ![col] = value]

ItemRowKinds ==
    { DataRowCells,
      With(DataRowCells, SheetCols, Str("Total")),
      BlankRowCells,
      With(With(DataRowCells, 1, EmptyCell), 3, EmptyCell),
      With(With(BlankRowCells, 1, Str("  ")), 3, Str("  ")),
      With(BlankRowCells, 4, Str("Total")),
      With(DataRowCells, STOP_SCAN_COL_COUNT, Str("Grand Total")),
      With(With(With(With(BlankRowCells, 1, Str("-")), 2, Str("N/A")),
                3, Str("abc")), 5, Str("Total")),
      With(DataRowCells, 1, Str("Customs Co")),
      With(With(DataRowCells, 1, Str("Part No")), 3, Str("Qty")),
      With(DataRowCells, 4, Str("abc")),
      With(DataRowCells, 1, EmptyCell) }

\* the merged ranges the sheet may have had: none, the part numbers of the
\* first two rows, or brand and brand type of the first row
ItemMerges(start_row, n) ==
    { << >> }
    \cup { << MergeRange(start_row, start_row, 8, 9) >> : k \in { j \in {1} : n >= 1 } }
    \cup { << MergeRange(start_row, start_row + 1, 1, 1) >> : k \in { j \in {1} : n >= 2 } }

RECURSIVE TrackerOf(_, _)
TrackerOf(merges, i) ==
    IF i = 0 THEN << >> ELSE capture_range(TrackerOf(merges, i - 1), merges[i])

\* the worksheet after MergeTracker has unmerged it: only the anchor of a
\* merged range keeps its value
SheetOf(rows, start_row, lookup) ==
    [ cell \in (start_row .. start_row + Len(rows) - 1) \X (1..SheetCols) |->
        IF cell \in DOMAIN lookup /\ ~ is_merge_anchor(lookup, cell[1], cell[2])
        THEN EmptyCell
        ELSE rows[cell[1] - start_row + 1][cell[2]] ]

InitExtract ==
    /\ ei_pc = "loop"
    /\ ei_column_map = ColumnMapping("invoice", InvoiceFieldMap,
                                     HEADER_SCAN_ROW_START, HEADER_SCAN_ROW_START)
    /\ ei_row = ei_column_map.effective_header_row + 1
    /\ \E n \in 0..MaxItemRows :
          /\ ei_max_row = ei_row + n - 1
          /\ \E rows \in [1..n -> ItemRowKinds], merges \in ItemMerges(ei_row, n) :
                /\ ei_merge_tracker = TrackerOf(merges, Len(merges))
                /\ ei_sheet = SheetOf(rows, ei_row, ei_merge_tracker)
    /\ ei_inv_no \in { None, Some("INV#789") }
    /\ ei_items = << >>
    /\ first_data_extracted = FALSE
    /\ ei_error = NoError
    /\ IdleBesidesExtract

\* step a of the loop body
PartNoRaw ==
    read_string_field(ei_sheet, ei_row, DictGet(ei_column_map.field_map, "part_no", 0),
                      ei_merge_tracker)

QtyRaw == sheet_cell(ei_sheet, ei_row, DictGet(ei_column_map.field_map, "qty", 0))

InLoop == ei_pc = "loop" /\ ei_row <= ei_max_row

Break ==
    /\ ei_pc' = "returned"
    /\ UNCHANGED << ei_row, ei_items, first_data_extracted, ei_error >>

Continue ==
    /\ ei_row' = ei_row + 1
    /\ UNCHANGED << ei_pc, ei_items, first_data_extracted, ei_error >>

ExtractFixed ==
    UNCHANGED << ei_sheet, ei_column_map, ei_merge_tracker, ei_inv_no, ei_max_row >>

\* step b: a stop keyword in columns A-J
StopKeywordRow ==
    /\ InLoop
    /\ scan_stop_keywords(ei_sheet, ei_row)
    /\ Break
    /\ ExtractFixed
    /\ UNCHANGED besidesExtract

\* step c: the part number holds "total" or a footer keyword
PartNoStopRow ==
    /\ InLoop
    /\ ~ scan_stop_keywords(ei_sheet, ei_row)
    /\ check_part_no_stops(PartNoRaw)
    /\ Break
    /\ ExtractFixed
    /\ UNCHANGED besidesExtract

\* step d: blank row
BlankRow ==
    /\ InLoop
    /\ ~ scan_stop_keywords(ei_sheet, ei_row)
    /\ ~ check_part_no_stops(PartNoRaw)
    /\ is_blank_row(PartNoRaw, QtyRaw)
    /\ IF first_data_extracted THEN Break ELSE Continue
    /\ ExtractFixed
    /\ UNCHANGED besidesExtract

\* step e: header continuation
HeaderContinuationRow ==
    /\ InLoop
    /\ ~ scan_stop_keywords(ei_sheet, ei_row)
    /\ ~ check_part_no_stops(PartNoRaw)
    /\ ~ is_blank_row(PartNoRaw, QtyRaw)
    /\ is_header_continuation(PartNoRaw)
    /\ Continue
    /\ ExtractFixed
    /\ UNCHANGED besidesExtract

\* steps f and g: the fields are read and the item is appended
DataRow ==
    /\ InLoop
    /\ ~ scan_stop_keywords(ei_sheet, ei_row)
    /\ ~ check_part_no_stops(PartNoRaw)
    /\ ~ is_blank_row(PartNoRaw, QtyRaw)
    /\ ~ is_header_continuation(PartNoRaw)
    /\ LET r == read_invoice_item(ei_sheet, ei_row, ei_column_map.field_map,
                                  ei_merge_tracker, ei_inv_no)
       IN  IF r.err # NoError
           THEN /\ ei_pc' = "failed"
                /\ ei_error' = r.err
                /\ UNCHANGED << ei_row, ei_items, first_data_extracted >>
           ELSE /\ ei_items' = Append(ei_items, r.item)
                /\ first_data_extracted' = TRUE
                /\ ei_row' = ei_row + 1
                /\ UNCHANGED << ei_pc, ei_error >>
    /\ ExtractFixed
    /\ UNCHANGED besidesExtract

\* the loop is exhausted: return items
LoopEnd ==
    /\ ei_pc = "loop"
    /\ ei_row > ei_max_row
    /\ ei_pc' = "returned"
    /\ UNCHANGED << ei_row, ei_items, first_data_extracted, ei_error >>
    /\ ExtractFixed
    /\ UNCHANGED besidesExtract

NextExtract ==
    \/ StopKeywordRow
    \/ PartNoStopRow
    \/ BlankRow
    \/ HeaderContinuationRow
    \/ DataRow
    \/ LoopEnd

SpecExtract == InitExtract /\ [][NextExtract]_vars

(***************************************************************************)
(* Specification of the conversions: a few invoice items whose currency    *)
(* and origin are spelled as in the tables, spelled differently, or not in *)
(* the tables; convert_currency runs, then convert_country on its result.  *)
(***************************************************************************)
CurrencyTexts == { "USD", "usd ", "XYZ" }

CountryTexts == { "CN", "cn", "Taiwan, China", "Mars" }

LookupConfigs ==
    { [ currency_lookup |-> << [key |-> "USD", val |-> "502"] >>,
        country_lookup  |-> << [key |-> "CN", val |-> "142"],
                               [key |-> "TAIWAN,CHINA", val |-> "143"] >> ],
      [ currency_lookup |-> << >>, country_lookup |-> << >> ] }

InitTransform ==
    /\ tr_pc = "start"
    /\ tr_heap \in SeqsUpTo([currency : CurrencyTexts, coo : CountryTexts],
                            MaxTransformItems)
    /\ tr_items = [i \in 1..Len(tr_heap) |-> i]
    /\ tr_config \in LookupConfigs
    /\ tr_warnings = << >>
    /\ IdleBesidesTransform

\* invoice_items, currency_warnings = convert_currency(invoice_items, config)
ConvertCurrency ==
    /\ tr_pc = "start"
    /\ LET r == convert_currency(tr_heap, tr_items, tr_config)
       IN  /\ tr_heap' = r.heap
           /\ tr_items' = r.updated
           /\ tr_warnings' = tr_warnings \o r.warnings
    /\ tr_pc' = "currency"
    /\ UNCHANGED tr_config
    /\ UNCHANGED besidesTransform

\* invoice_items, coo_warnings = convert_country(invoice_items, config)
ConvertCountry ==
    /\ tr_pc = "currency"
    /\ LET r == convert_country(tr_heap, tr_items, tr_config)
       IN  /\ tr_heap' = r.heap
           /\ tr_items' = r.updated
           /\ tr_warnings' = tr_warnings \o r.warnings
    /\ tr_pc' = "country"
    /\ UNCHANGED tr_config
    /\ UNCHANGED besidesTransform

NextTransform == ConvertCurrency \/ ConvertCountry

SpecTransform == InitTransform /\ [][NextTransform]_vars

(***************************************************************************)
(* Specification of the packing extraction: a header at row 7 and up to    *)
(* MaxPackingRows rows below it, drawn from data rows of two parts, total  *)
(* rows with and without a keyword, ditto and continuation rows, blank,    *)
(* pallet and zero rows; the part-number, weight or quantity cells of      *)
(* neighbouring rows may have been merged.                                 *)
(***************************************************************************)
PackingFieldMap ==
    << [key |-> "part_no", val |-> 1], [key |-> "qty", val |-> 2],
       [key |-> "nw", val |-> 3], [key |-> "gw", val |-> 4] >>

PackingRow(part, qty_cell, nw_cell, gw_cell) ==
    [col \in 1..SheetCols |->
        CASE col = 1 -> part
          [] col = 2 -> qty_cell
          [] col = 3 -> nw_cell
          [] col = 4 -> gw_cell
          [] OTHER   -> EmptyCell]

PackingRowKinds ==
    { PackingRow(Str("PT001"), Number(10), Number(5), Number(6)),
      PackingRow(Str("PT002"), Number(10), Number(5), Number(6)),
      PackingRow(EmptyCell, Number(20), Number(10), Number(12)),
      PackingRow(Str("Total"), Number(20), Number(10), Number(12)),
      PackingRow(Str("PT001"), Number(10), Str("\""), Str("\"")),
      PackingRow(Str("PT001"), EmptyCell, EmptyCell, EmptyCell),
      PackingRow(EmptyCell, EmptyCell, EmptyCell, EmptyCell),
      PackingRow(Str("Pallet 1"), EmptyCell, Str("7 Pallets"), EmptyCell),
      PackingRow(Str("PT002"), Number(0), Str("\""), EmptyCell),
      PackingRow(EmptyCell, Number(10), Number(5), Number(0)),
      PackingRow(EmptyCell, Number(10), Str("10 KG"), Number(12)) }

\* the merged ranges the sheet may have had, for n rows from start_row on
PackingMerges(start_row, n) ==
    { << >> }
    \cup { << MergeRange(start_row - 1, start_row + 1, 3, 3) >> :
             k \in { j \in {1} : n >= 2 } }
    \cup { << MergeRange(start_row, start_row + 1, c, c) >> :
             c \in { j \in 1..3 : n >= 2 } }
    \cup { << MergeRange(start_row, start_row + 1, 1, 1),
              MergeRange(start_row, start_row + 1, 3, 3) >> : k \in { j \in {1} : n >= 2 } }
    \cup { << MergeRange(start_row + 1, start_row + 2, 3, 3) >> :
             k \in { j \in {1} : n >= 3 } }

InitPacking ==
    /\ pk_pc = "loop"
    /\ pk_column_map = ColumnMapping("packing", PackingFieldMap,
                                     HEADER_SCAN_ROW_START, HEADER_SCAN_ROW_START)
    /\ pk_row = pk_column_map.effective_header_row + 1
    /\ \E n \in 0..MaxPackingRows :
          /\ pk_max_row = pk_row + n - 1
          /\ \E rows \in [1..n -> PackingRowKinds], merges \in PackingMerges(pk_row, n) :
                /\ pk_merge_tracker = TrackerOf(merges, Len(merges))
                /\ pk_sheet = SheetOf(rows, pk_row, pk_merge_tracker)
    /\ pk_items = << >>
    /\ last_data_row = pk_row
    /\ has_first_data_row = FALSE
    /\ prev_part_no = None
    /\ pk_total_row = 0
    /\ pk_error = NoError
    /\ IdleBesidesPacking

PackingInLoop == pk_pc = "loop" /\ pk_row <= pk_max_row

PackingStops ==
    check_stop_conditions(pk_sheet, pk_row,
                          DictGet(pk_column_map.field_map, "part_no", 0),
                          DictGet(pk_column_map.field_map, "nw", 0),
                          DictGet(pk_column_map.field_map, "gw", 0),
                          pk_merge_tracker, has_first_data_row)

PackingFixed ==
    UNCHANGED << pk_sheet, pk_column_map, pk_merge_tracker, pk_max_row >>

\* if _check_stop_conditions(...): break, and the return after the loop
PackingStopRow ==
    /\ PackingInLoop
    /\ PackingStops
    /\ pk_pc' = "extracted"
    /\ UNCHANGED << pk_row, pk_items, last_data_row, has_first_data_row,
                    prev_part_no, pk_total_row, pk_error >>
    /\ PackingFixed
    /\ UNCHANGED besidesPacking

\* the rest of the loop body: continue, raise or append
PackingDataRow ==
    /\ PackingInLoop
    /\ ~ PackingStops
    /\ LET r == packing_row(pk_sheet, pk_row, pk_column_map.field_map,
                            pk_merge_tracker, prev_part_no)
       IN  CASE r.outcome = "skip" ->
                  /\ pk_row' = pk_row + 1
                  /\ UNCHANGED << pk_pc, pk_items, last_data_row,
                                  has_first_data_row, prev_part_no, pk_error >>
             [] r.outcome = "error" ->
                  /\ pk_pc' = "failed"
                  /\ pk_error' = r.err
                  /\ UNCHANGED << pk_row, pk_items, last_data_row,
                                  has_first_data_row, prev_part_no >>
             [] OTHER ->
                  /\ pk_items' = Append(pk_items, r.item)
                  /\ last_data_row' = pk_row
                  /\ has_first_data_row' = TRUE
                  /\ prev_part_no' = Some(r.item.part_no)
                  /\ pk_row' = pk_row + 1
                  /\ UNCHANGED << pk_pc, pk_error >>
    /\ UNCHANGED pk_total_row
    /\ PackingFixed
    /\ UNCHANGED besidesPacking

\* the loop is exhausted: return items, last_data_row
PackingLoopEnd ==
    /\ pk_pc = "loop"
    /\ pk_row > pk_max_row
    /\ pk_pc' = "extracted"
    /\ UNCHANGED << pk_row, pk_items, last_data_row, has_first_data_row,
                    prev_part_no, pk_total_row, pk_error >>
    /\ PackingFixed
    /\ UNCHANGED besidesPacking

\* 4c: validate_merged_weights(packing_items_raw, pack_merge, pack_col_map)
ValidateMergedWeights ==
    /\ pk_pc = "extracted"
    /\ LET e == validate_merged_weights(pk_items, pk_merge_tracker, pk_column_map)
       IN  /\ pk_pc' = IF e = NoError THEN "validated" ELSE "failed"
           /\ pk_error' = e
    /\ UNCHANGED << pk_row, pk_items, last_data_row, has_first_data_row,
                    prev_part_no, pk_total_row >>
    /\ PackingFixed
    /\ UNCHANGED besidesPacking

\* 4d: total_row = detect_total_row(pack_sheet, last_data_row, ...)
DetectTotalRow ==
    /\ pk_pc = "validated"
    /\ LET r == detect_total_row(pk_sheet, last_data_row, pk_column_map,
                                 pk_merge_tracker, pk_max_row)
       IN  /\ pk_pc' = IF r.err = NoError THEN "detected" ELSE "failed"
           /\ pk_error' = r.err
           /\ pk_total_row' = r.row
    /\ UNCHANGED << pk_row, pk_items, last_data_row, has_first_data_row,
                    prev_part_no >>
    /\ PackingFixed
    /\ UNCHANGED besidesPacking

NextPacking ==
    \/ PackingStopRow
    \/ PackingDataRow
    \/ PackingLoopEnd
    \/ ValidateMergedWeights
    \/ DetectTotalRow

SpecPacking == InitPacking /\ [][NextPacking]_vars

(***************************************************************************)
(* Specification of the batch: up to MaxFiles files in data/, among them   *)
(* temporary and hidden ones; every phase of process_file may return or    *)
(* raise what it can raise.                                                *)
(***************************************************************************)
FileNames == { ".c.xlsx", "a.xlsx", "b.xls", "c.xlsx", "~$b.xls" }

InitBatch ==
    /\ bt_pc = "scan"
    /\ bt_data_dir \in { d \in SUBSET FileNames : Cardinality(d) <= MaxFiles }
    /\ bt_finished = {}
    /\ bt_files = << >>
    /\ bt_idx = 0
    /\ bt_errors = << >>
    /\ bt_warnings = << >>
    /\ bt_status = ""
    /\ bt_file_results = << >>
    /\ bt_result = None
    /\ IdleBesidesBatch

BatchFixed == UNCHANGED << bt_data_dir, bt_files, bt_idx, bt_file_results, bt_result >>

\* files = _scan_input_files(data_dir); the early return when there is none
ScanInputFiles ==
    /\ bt_pc = "scan"
    /\ bt_files' = scan_input_files(bt_data_dir)
    /\ IF bt_files' = << >>
       THEN /\ bt_result' = Some(BatchResultOf(<< >>))
            /\ bt_pc' = "done"
            /\ bt_idx' = bt_idx
       ELSE /\ bt_result' = bt_result
            /\ bt_pc' = "call"
            /\ bt_idx' = 1
    /\ UNCHANGED << bt_data_dir, bt_finished, bt_errors, bt_warnings, bt_status,
                    bt_file_results >>
    /\ UNCHANGED besidesBatch

\* result = process_file(filepath, config): the locals of process_file
CallProcessFile ==
    /\ bt_pc = "call"
    /\ bt_errors' = << >>
    /\ bt_warnings' = << >>
    /\ bt_status' = "Failed"
    /\ bt_pc' = "open"
    /\ UNCHANGED bt_finished
    /\ BatchFixed
    /\ UNCHANGED besidesBatch

\* a ProcessingError caught by the handler of its phase
PhaseFails(codes) ==
    /\ bt_errors' = bt_errors \o codes
    /\ bt_status' = determine_file_status(bt_errors', bt_warnings)
    /\ bt_pc' = "return"
    /\ UNCHANGED << bt_warnings, bt_finished >>

\* an exception caught by one of the outer handlers
OuterHandler(exc) ==
    /\ bt_errors' = Append(bt_errors,
                           IF exc = "PermissionError" THEN "ERR_010" ELSE "ERR_011")
    /\ bt_status' = "Failed"
    /\ bt_pc' = "return"
    /\ UNCHANGED << bt_warnings, bt_finished >>

\* the phase returns: on to the next one
PhaseReturns(next_pc, new_warnings) ==
    /\ bt_warnings' = bt_warnings \o new_warnings
    /\ bt_pc' = next_pc
    /\ UNCHANGED << bt_errors, bt_status, bt_finished >>

\* Phase 1: workbook = _open_workbook(filepath)
OpenWorkbook ==
    /\ bt_pc = "open"
    /\ \/ PhaseReturns("detect", << >>)
       \/ \E exc \in { "PermissionError", "InvalidFileException", "Exception" } :
            OuterHandler(exc)
    /\ BatchFixed
    /\ UNCHANGED besidesBatch

\* Phase 2: sheet detection
DetectSheets ==
    /\ bt_pc = "detect"
    /\ \/ PhaseReturns("map", << >>)
       \/ PhaseFails(<< "ERR_012" >>)
       \/ OuterHandler("Exception")
    /\ BatchFixed
    /\ UNCHANGED besidesBatch

\* Phase 3: column mapping, whose errors are collected in phase3_errors
MapColumns ==
    /\ bt_pc = "map"
    /\ \/ PhaseReturns("extract", << >>)
       \/ \E phase3_errors \in { << "ERR_014" >>, << "ERR_020" >>, << "ERR_021" >>,
                                 << "ERR_014", "ERR_020" >> } :
            PhaseFails(phase3_errors)
       \/ OuterHandler("Exception")
    /\ BatchFixed
    /\ UNCHANGED besidesBatch

\* Phase 4: extraction; extract_totals may hand back the warning ATT_002
ExtractData ==
    /\ bt_pc = "extract"
    /\ \/ \E totals_warnings \in { << >>, << "ATT_002" >> } :
            PhaseReturns("transform", totals_warnings)
       \/ PhaseFails(<< "ERR_030" >>)
       \/ OuterHandler("Exception")
    /\ BatchFixed
    /\ UNCHANGED besidesBatch

\* Phase 5: the conversions, which only warn
TransformData ==
    /\ bt_pc = "transform"
    /\ \E currency_warnings \in { << >>, << "ATT_003" >> },
          coo_warnings \in { << >>, << "ATT_004" >> } :
            PhaseReturns("allocate", currency_warnings \o coo_warnings)
    /\ BatchFixed
    /\ UNCHANGED besidesBatch

\* Phase 6: weight allocation, which raises a ProcessingError or, on a
\* group of invoice lines without quantity, an arithmetic exception
AllocateWeights ==
    /\ bt_pc = "allocate"
    /\ \/ PhaseReturns("validate", << >>)
       \/ PhaseFails(<< "ERR_047" >>)
       \/ OuterHandler("Exception")
    /\ BatchFixed
    /\ UNCHANGED besidesBatch

\* Phase 7: status = determine_file_status(errors, warnings)
ValidateStatus ==
    /\ bt_pc = "validate"
    /\ bt_status' = determine_file_status(bt_errors, bt_warnings)
    /\ bt_pc' = "output"
    /\ UNCHANGED << bt_errors, bt_warnings, bt_finished >>
    /\ BatchFixed
    /\ UNCHANGED besidesBatch

\* Phase 8: write_template, when the status allows it
WriteOutput ==
    /\ bt_pc = "output"
    /\ IF bt_status \in { "Success", "Attention" }
       THEN /\ bt_finished' = bt_finished \cup { bt_files[bt_idx] }
            /\ bt_pc' = "return"
            /\ bt_warnings' = bt_warnings
            /\ \/ UNCHANGED << bt_errors, bt_status >>
               \/ /\ bt_errors' = Append(bt_errors, "ERR_051")
                  /\ bt_status' = determine_file_status(bt_errors', bt_warnings)
               \/ /\ bt_errors' = Append(bt_errors, "ERR_010")
                  /\ bt_status' = "Failed"
       ELSE /\ bt_pc' = "return"
            /\ UNCHANGED << bt_errors, bt_warnings, bt_status, bt_finished >>
    /\ BatchFixed
    /\ UNCHANGED besidesBatch

\* return _build_result(...), file_results.append(result), and after the
\* last file the BatchResult
ReturnResult ==
    /\ bt_pc = "return"
    /\ bt_file_results' = Append(bt_file_results,
                                 FileResult(bt_files[bt_idx], bt_status, bt_errors,
                                            bt_warnings))
    /\ IF bt_idx < Len(bt_files)
       THEN /\ bt_idx' = bt_idx + 1
            /\ bt_pc' = "call"
            /\ bt_result' = bt_result
       ELSE /\ bt_idx' = bt_idx
            /\ bt_pc' = "done"
            /\ bt_result' = Some(BatchResultOf(bt_file_results'))
    /\ UNCHANGED << bt_data_dir, bt_files, bt_finished, bt_errors, bt_warnings,
                    bt_status >>
    /\ UNCHANGED besidesBatch

NextBatch ==
    \/ ScanInputFiles
    \/ CallProcessFile
    \/ OpenWorkbook
    \/ DetectSheets
    \/ MapColumns
    \/ ExtractData
    \/ TransformData
    \/ AllocateWeights
    \/ ValidateStatus
    \/ WriteOutput
    \/ ReturnResult

SpecBatch == InitBatch /\ [][NextBatch]_vars

(***************************************************************************)
(* Vocabulary of the properties, stated on the inputs                      *)
(***************************************************************************)
RECURSIVE SumOver(_, _)
SumOver(S, f) ==
    IF S = {} THEN 0
    ELSE LET x == CHOOSE y \in S : TRUE IN f[x] + SumOver(S \ {x}, f)

PackingRows == DOMAIN packing_items

InvoiceLines == DOMAIN invoice_items

PackingPartSet == { strip(packing_items[i].part_no) : i \in PackingRows }

InvoicePartSet == { strip(invoice_items[i].part_no) : i \in InvoiceLines }

RowsOf(k) == { i \in PackingRows : strip(packing_items[i].part_no) = k }

LinesOf(k) == { i \in InvoiceLines : strip(invoice_items[i].part_no) = k }

\* unrounded net weight of part k: the sum over its packing rows
PartNw(k) == SumOver(RowsOf(k), [i \in RowsOf(k) |-> packing_items[i].nw])

PackingSum == SumOver(PackingRows, [i \in PackingRows |-> packing_items[i].nw])

Allocated(i) == invoice_items[i].allocated_weight

\* number of stages of allocate_weights that have completed without error
StagesPassed ==
    CASE pc = "start"      -> 0
      [] pc = "aggregated" -> 1
      [] pc = "validated"  -> 2
      [] pc = "summatched" -> 3
      [] pc = "precision"  -> 4
      [] pc = "rounded"    -> 5
      [] pc = "allocated"  -> 6
      [] pc = "done"       -> 7
      [] pc = "failed" /\ error.code \in {"ERR_042", "ERR_045"} -> 0
      [] pc = "failed" /\ error.code = "ERR_047" -> 1
      [] pc = "failed" /\ error.code = "ERR_044" -> 3
      [] pc = "failed" /\ error.code = "ERR_041" -> 4
      [] pc = "failed" /\ error.code \in {"ERR_040", "ERR_043", "ArithmeticError"} -> 5
      [] pc = "failed" /\ error.code = "ERR_048" -> 6

Returned == pc = "done"

(***************************************************************************)
(* C1: whenever allocate_weights returns without error, the allocated      *)
(* weights of all returned invoice lines sum to total_nw exactly.          *)
(***************************************************************************)
C1_SumEqualsTotal ==
    Returned =>
        SumOver({ i \in InvoiceLines : Allocated(i) # None },
                [i \in InvoiceLines |-> Allocated(i)[1]]) = total_nw

\* a successful allocation over two parts, one of them split over two lines
C1_Witness ==
    /\ Returned
    /\ Cardinality(PackingPartSet) = 2
    /\ \E k \in PackingPartSet : Cardinality(LinesOf(k)) = 2

(***************************************************************************)
(* C2: every invoice item starts with allocated_weight absent, and after   *)
(* a successful return every item passed in has allocated_weight present.  *)
(***************************************************************************)
C2_AllAllocated ==
    /\ pc = "start" => \A i \in InvoiceLines : Allocated(i) = None
    /\ Returned => \A i \in InvoiceLines : Allocated(i) # None

C2_Witness ==
    /\ Returned
    /\ Cardinality(InvoiceLines) = 3
    /\ Cardinality(InvoicePartSet) = 2

(***************************************************************************)
(* C3: after a successful allocation every invoice line's allocated weight *)
(* is strictly greater than zero, the last part and the last line of a     *)
(* group included.                                                         *)
(***************************************************************************)
C3_AllPositive ==
    Returned => \A i \in InvoiceLines : Allocated(i) # None /\ Allocated(i)[1] > 0

(***************************************************************************)
(* C4: pre-validation fails with ERR_047 if and only if the absolute       *)
(* difference between the unrounded sum of the packing weights and         *)
(* total_nw is strictly greater than 0.1; exactly 0.1 passes.              *)
(***************************************************************************)
C4_ToleranceBoundary ==
    LET difference == Abs(PackingSum - total_nw)
        reached    == StagesPassed >= 2 \/ (pc = "failed" /\ StagesPassed = 1)
    IN  reached => ((error.code = "ERR_047") <=> (10 * difference > Unit))

\* a difference of exactly 0.1 that passed pre-validation
C4_Witness ==
    /\ StagesPassed >= 2
    /\ 10 * Abs(PackingSum - total_nw) = Unit
    /\ packing_items # << >>

(***************************************************************************)
(* C5: part matching is collect-then-report.  When at least one invoice    *)
(* part has no packing entry, allocation fails with ERR_040 naming every   *)
(* such invoice part and no packing-only part; ERR_043, naming every       *)
(* packing part with no invoice line, is raised only when no invoice part  *)
(* is unmatched.                                                           *)
(***************************************************************************)
UnmatchedInvoiceParts == InvoicePartSet \ PackingPartSet

UnmatchedPackingParts == PackingPartSet \ InvoicePartSet

Named == { error.parts[i] : i \in DOMAIN error.parts }

\* the matching stage has run: it completed or it raised
MatchingRan == StagesPassed >= 6 \/ (pc = "failed" /\ StagesPassed = 5)

C5_CollectThenReport ==
    MatchingRan =>
        /\ UnmatchedInvoiceParts # {} =>
               error.code = "ERR_040" /\ Named = UnmatchedInvoiceParts
        /\ error.code = "ERR_040" => UnmatchedInvoiceParts # {}
        /\ error.code = "ERR_043" =>
               UnmatchedInvoiceParts = {} /\ Named = UnmatchedPackingParts
                   /\ UnmatchedPackingParts # {}

(***************************************************************************)
(* C6: sum matching chooses N = total_nw_precision clamped to [2,5] when   *)
(* the part weights rounded half-up to N places sum to total_nw, and       *)
(* min(N+1, 5) otherwise, whether or not the sum matches there.            *)
(***************************************************************************)
\* half-up rounding of a non-negative value v to p decimals
HalfUp(v, p) ==
    LET g == 10 ^ (UnitDigits - p) IN g * ((2 * v + g) \div (2 * g))

Clamped == IF total_nw_precision < 2 THEN 2
           ELSE IF total_nw_precision > 5 THEN 5 ELSE total_nw_precision

RoundedPartSum(p) ==
    SumOver(PackingPartSet, [k \in PackingPartSet |-> HalfUp(PartNw(k), p)])

C6_SumMatching ==
    StagesPassed >= 3 =>
        precision = IF RoundedPartSum(Clamped) = total_nw THEN Clamped
                    ELSE IF Clamped < 5 THEN Clamped + 1 ELSE 5

\* N + 1 adopted although the rounded sum matches at neither precision
C6_Witness ==
    /\ StagesPassed >= 3
    /\ Clamped < 5
    /\ PackingPartSet # {}
    /\ RoundedPartSum(Clamped) # total_nw
    /\ RoundedPartSum(Clamped + 1) # total_nw
    /\ precision = Clamped + 1

(***************************************************************************)
(* C7: two packing rows with net weights 3.335 and 6.665, a stated total   *)
(* of 10.0 and detected precision 2.                                       *)
(***************************************************************************)
ScenarioRows ==
    /\ Len(packing_items) = 2
    /\ packing_items[1].nw = 3335000
    /\ packing_items[2].nw = 6665000
    /\ total_nw = 10 * Unit
    /\ total_nw_precision = 2

SamePartScenario ==
    /\ ScenarioRows
    /\ strip(packing_items[1].part_no) = A
    /\ strip(packing_items[2].part_no) = A

TwoPartScenario ==
    /\ ScenarioRows
    /\ strip(packing_items[1].part_no) # strip(packing_items[2].part_no)

AllocatedTotal ==
    SumOver(InvoiceLines, [i \in InvoiceLines |-> Allocated(i)[1]])

\* C7 as stated: both rows belong to part "A", the allocator escalates to
\* precision 3 and the lines of "A" receive weights summing to exactly 10.0
C7_AsStated ==
    SamePartScenario =>
        /\ StagesPassed >= 4 => optimal_precision = 3
        /\ Returned => AllocatedTotal = 10 * Unit

\* C7 amended: with the two rows on two different parts the allocator
\* escalates to precision 3; with both rows on part "A" the aggregated weight
\* 10.000 matches at precision 2 and the allocator stays there; in both cases
\* the invoice lines receive weights summing to exactly 10.0
C7_Scenario ==
    /\ TwoPartScenario /\ StagesPassed >= 4 => optimal_precision = 3
    /\ SamePartScenario /\ StagesPassed >= 4 => optimal_precision = 2
    /\ ScenarioRows /\ Returned => AllocatedTotal = 10 * Unit

C7_Witness ==
    /\ TwoPartScenario
    /\ Returned
    /\ optimal_precision = 3
    /\ precision = 3

(***************************************************************************)
(* C8: zero-check escalation returns the smallest p between the            *)
(* sum-matching precision and 5 at which no part weight rounds half-up to  *)
(* zero; ERR_044 is raised if and only if some part rounds to zero at 5.   *)
(***************************************************************************)
\* a positive weight rounds to zero at p decimals iff it is below half a quantum
NoZeroAt(p) == \A k \in PackingPartSet : 2 * PartNw(k) >= 10 ^ (UnitDigits - p)

ZeroCheckRan == StagesPassed >= 4 \/ (pc = "failed" /\ StagesPassed = 3)

C8_ZeroCheckEscalation ==
    ZeroCheckRan =>
        /\ (error.code = "ERR_044") <=> ~ NoZeroAt(5)
        /\ StagesPassed >= 4 =>
               /\ optimal_precision \in 2..5
               /\ optimal_precision >= precision
               /\ NoZeroAt(optimal_precision)
               /\ \A p \in precision..(optimal_precision - 1) : ~ NoZeroAt(p)

\* two escalation steps above the sum-matching precision
C8_Witness ==
    /\ StagesPassed >= 4
    /\ optimal_precision = precision + 2

(***************************************************************************)
(* C9: round and adjust.  Every part except the last in first-appearance   *)
(* order holds its aggregated weight rounded half-up at the chosen         *)
(* precision, the last part holds total_nw minus the others, the weights   *)
(* sum to total_nw, and ERR_041 is raised iff that last value is negative. *)
(***************************************************************************)
FirstRow(k) == CHOOSE i \in RowsOf(k) : \A j \in RowsOf(k) : i <= j

LastPart == CHOOSE k \in PackingPartSet :
                \A l \in PackingPartSet : FirstRow(l) <= FirstRow(k)

OtherParts == PackingPartSet \ {LastPart}

LastValue ==
    total_nw - SumOver(OtherParts,
                       [k \in OtherParts |-> HalfUp(PartNw(k), optimal_precision)])

RoundingRan == StagesPassed >= 5 \/ (pc = "failed" /\ StagesPassed = 4)

C9_RoundAndAdjust ==
    RoundingRan /\ PackingPartSet # {} =>
        /\ (error.code = "ERR_041") <=> LastValue < 0
        /\ StagesPassed >= 5 =>
               /\ Len(rounded_weights) = Cardinality(PackingPartSet)
               /\ \A n \in DOMAIN rounded_weights :
                      LET k == rounded_weights[n].key
                      IN  /\ k \in PackingPartSet
                          /\ \A m \in DOMAIN rounded_weights :
                                 m < n => FirstRow(rounded_weights[m].key) < FirstRow(k)
                          /\ rounded_weights[n].val =
                                 IF k = LastPart THEN LastValue
                                 ELSE HalfUp(PartNw(k), optimal_precision)
               /\ SumOver(DOMAIN rounded_weights,
                          [n \in DOMAIN rounded_weights |-> rounded_weights[n].val])
                      = total_nw

\* the last of two parts absorbed a remainder that is not its own rounded weight
C9_Witness ==
    /\ StagesPassed >= 5
    /\ Cardinality(PackingPartSet) = 2
    /\ LastValue # HalfUp(PartNw(LastPart), optimal_precision)
    /\ rounded_weights[2].val = LastValue

(***************************************************************************)
(* C10: proportional allocation.  For a packing part matched by k >= 1     *)
(* invoice lines, each of the first k-1 lines in invoice order receives    *)
(* part_weight * line_qty / (sum of the k quantities) rounded half-up to   *)
(* chosen_precision + 1 places, and the k-th line receives part_weight     *)
(* minus the sum of those, so the group sums to the part's rounded weight. *)
(***************************************************************************)
\* w * q / t rounded half-up to lp decimals, on the exact quotient
ExactShare(w, q, t, lp) ==
    LET g == 10 ^ (UnitDigits - lp) IN g * ((2 * w * q + t * g) \div (2 * t * g))

\* the allocation loop ran to its end
AllocationLoopRan ==
    StagesPassed >= 6 \/ (pc = "failed" /\ error.code \in {"ERR_040", "ERR_043"})

C10_ProportionalAllocation ==
    AllocationLoopRan =>
        \A n \in DOMAIN rounded_weights :
            LET w     == rounded_weights[n].val
                L     == LinesOf(rounded_weights[n].key)
                last  == CHOOSE i \in L : \A j \in L : j <= i
                first == L \ {last}
                t     == SumOver(L, [i \in L |-> invoice_items[i].qty])
                share == [i \in first |->
                             ExactShare(w, invoice_items[i].qty, t, optimal_precision + 1)]
            IN  L # {} =>
                    /\ \A i \in first : Allocated(i) = Some(share[i])
                    /\ Allocated(last) = Some(w - SumOver(first, share))
                    /\ SumOver(L, [i \in L |-> Allocated(i)[1]]) = w

(***************************************************************************)
(* C11: aggregation groups the packing rows by stripped part number and    *)
(* sums net weight and quantity per part.  It fails with ERR_042 when some *)
(* part's summed weight is <= 0, with ERR_045 when all summed weights are  *)
(* positive and some part's summed quantity is <= 0, and otherwise hands   *)
(* on, per part, a strictly positive weight and a strictly positive        *)
(* quantity.                                                               *)
(***************************************************************************)
\* quantity of part k: the sum over its packing rows
PartQty(k) == SumOver(RowsOf(k), [i \in RowsOf(k) |-> packing_items[i].qty])

AggregationRan == pc # "start"

KeysOf(d) == { d[i].key : i \in DOMAIN d }

C11_Aggregation ==
    AggregationRan =>
        /\ (error.code = "ERR_042") <=> \E k \in PackingPartSet : PartNw(k) <= 0
        /\ (error.code = "ERR_045") <=>
               /\ \A k \in PackingPartSet : PartNw(k) > 0
               /\ \E k \in PackingPartSet : PartQty(k) <= 0
        /\ (\E k \in PackingPartSet : PartNw(k) <= 0 \/ PartQty(k) <= 0) =>
               pc = "failed" /\ StagesPassed = 0
        /\ StagesPassed >= 1 =>
               /\ KeysOf(agg_nw) = PackingPartSet
               /\ KeysOf(agg_qty) = PackingPartSet
               /\ Len(agg_nw) = Cardinality(PackingPartSet)
               /\ Len(agg_qty) = Cardinality(PackingPartSet)
               /\ \A i \in DOMAIN agg_nw :
                      agg_nw[i].val = PartNw(agg_nw[i].key) /\ agg_nw[i].val > 0
               /\ \A i \in DOMAIN agg_qty :
                      agg_qty[i].val = PartQty(agg_qty[i].key) /\ agg_qty[i].val > 0

\* two rows whose part numbers differ only by surrounding blanks, one of them
\* a continuation row of weight zero, summed into one positive part
C11_Witness ==
    /\ StagesPassed >= 1
    /\ Len(packing_items) = 2
    /\ Cardinality(PackingPartSet) = 1
    /\ \E i \in PackingRows : packing_items[i].nw = 0 \/ packing_items[i].part_no # A
    /\ agg_nw[1].val = packing_items[1].nw + packing_items[2].nw

(***************************************************************************)
(* C12: merge transparency.  For a cell inside a captured merge range,     *)
(* get_anchor_value returns the value stored at the range's top-left cell, *)
(* whichever member cell is queried and also after the sheet has been      *)
(* fully unmerged; for a cell in no captured range it returns the cell's   *)
(* own value.                                                              *)
(***************************************************************************)
Captured == { ranges[i] : i \in DOMAIN ranges }

Inside(row, col, rng) ==
    /\ rng.min_row <= row /\ row <= rng.max_row
    /\ rng.min_col <= col /\ col <= rng.max_col

FullyUnmerged == merged_cells = {}

C12_MergeTransparency ==
    mt_query # None =>
        LET row == mt_query.row
            col == mt_query.col
        IN  /\ FullyUnmerged
            /\ \A rng \in Captured :
                   Inside(row, col, rng) =>
                       mt_query.get_anchor_value = sheet_cells[<< rng.min_row, rng.min_col >>]
            /\ (~ \E rng \in Captured : Inside(row, col, rng)) =>
                   mt_query.get_anchor_value = sheet_cells[<< row, col >>]

\* a continuation cell, empty since the unmerge, answers with the anchor's value
C12_Witness ==
    /\ mt_query # None
    /\ \E rng \in Captured :
           /\ Inside(mt_query.row, mt_query.col, rng)
           /\ << mt_query.row, mt_query.col >> # << rng.min_row, rng.min_col >>
    /\ sheet_cells[<< mt_query.row, mt_query.col >>] = None
    /\ mt_query.get_anchor_value # None

(***************************************************************************)
(* C13: merge snapshot.  The constructor captures every range merged at    *)
(* that moment before any unmerge happens and unmerges from the captured   *)
(* list; afterwards the sheet has no merged ranges, is_in_merge is true    *)
(* exactly for the cells inside a captured range and is_merge_anchor       *)
(* exactly for the top-left cell of a captured range.                      *)
(***************************************************************************)
Snapshotted == { raw_ranges[i] : i \in DOMAIN raw_ranges }

ScanWindow == HEADER_SCAN_ROW_START .. HEADER_SCAN_ROW_END

\* the texts of a row that count: non-empty and no "Unnamed:" placeholder
CountedCells(row) ==
    LET values == RowValues(hd_sheet, row)
    IN  { col \in DOMAIN values :
              /\ col <= HEADER_SCAN_COL_COUNT
              /\ values[col] # None
              /\ StripText(values[col][1]) # ""
              /\ ~ StartsWithUnnamed(StripText(values[col][1])) }

MinHeaders ==
    IF hd_sheet_type = "invoice" THEN hd_config.invoice_min_headers
    ELSE hd_config.packing_min_headers

\* the rows of the window that meet the threshold
Qualifying == { row \in ScanWindow : Cardinality(CountedCells(row)) >= MinHeaders }

HasMarker(row) ==
    \E col \in CountedCells(row) :
        ContainsMetadataMarker(StripText(RowValues(hd_sheet, row)[col][1]))

TierOf(row) ==
    row_tier(SelectSeq(collect_row_cells(hd_sheet, row, HEADER_SCAN_COL_COUNT),
                       LAMBDA c : ~ StartsWithUnnamed(c)))

(***************************************************************************)
(* C14: detect_header_row returns, among the rows of the scan window that  *)
(* meet the sheet type's minimum count of non-empty cells, a row of the    *)
(* lowest tier present and, among the rows of that tier, the topmost; it   *)
(* fails with ERR_014 if and only if no row of the window meets the        *)
(* threshold.                                                              *)
(***************************************************************************)
C14_LowestTierTopmost ==
    hd_pc \in { "returned", "failed" } =>
        /\ (hd_pc = "failed") <=> Qualifying = {}
        /\ (hd_error.code = "ERR_014") <=> Qualifying = {}
        /\ hd_pc = "returned" =>
               /\ hd_row # None
               /\ hd_row[1] \in Qualifying
               /\ \A row \in Qualifying :
                      /\ TierOf(hd_row[1]) <= TierOf(row)
                      /\ TierOf(row) = TierOf(hd_row[1]) => hd_row[1] <= row

\* a Tier-0 row at row 9 returned rather than the Tier-1 row at row 8
C14_Witness ==
    /\ hd_pc = "returned"
    /\ hd_row = Some(9)
    /\ 8 \in Qualifying
    /\ TierOf(8) = 1
    /\ TierOf(9) = 0
    /\ 7 \notin Qualifying

(***************************************************************************)
(* C15: a threshold-meeting row that contains a metadata marker counts as  *)
(* Tier 2 whatever its other cells hold, so detect_header_row never        *)
(* returns it when another threshold-meeting row of Tier 0 or Tier 1       *)
(* exists in the window.                                                   *)
(***************************************************************************)
C15_MetadataRowTier2 ==
    hd_pc = "returned" /\ HasMarker(hd_row[1]) =>
        \A row \in Qualifying \ { hd_row[1] } : HasMarker(row) \/ TierOf(row) = 2

(***************************************************************************)
(* C16: map_columns fails with ERR_020 if and only if at least one         *)
(* required field is still unmapped after the primary header scan, the     *)
(* sub-header fallback and the currency fallback have all run; the error   *)
(* names every still-unmapped required field, in sorted order.             *)
(***************************************************************************)
Mapped == { field_map[i].key : i \in DOMAIN field_map }

StillUnmapped ==
    { field_defs[i].key : i \in { j \in DOMAIN field_defs : field_defs[j].val.required } }
        \ Mapped

Rank(name) == CHOOSE i \in DOMAIN NameOrder : NameOrder[i] = name

C16_RequiredColumnsMissing ==
    /\ mc_pc \in { "call", "scanned", "subheader", "currency" } => mc_error = NoError
    /\ mc_pc \in { "returned", "failed" } =>
           /\ (mc_pc = "failed") <=> StillUnmapped # {}
           /\ (mc_error.code = "ERR_020") <=> StillUnmapped # {}
           /\ { mc_error.parts[i] : i \in DOMAIN mc_error.parts } = StillUnmapped
           /\ \A i, j \in DOMAIN mc_error.parts :
                  i < j => Rank(mc_error.parts[i]) < Rank(mc_error.parts[j])

\* two required fields still missing although the sub-header supplied one
C16_Witness ==
    /\ mc_pc = "failed"
    /\ effective_header_row = mc_header_row + 1
    /\ Len(mc_error.parts) >= 2
    /\ "price" \in Mapped

(***************************************************************************)
(* C17: in the header scan each header cell is assigned to at most one     *)
(* field and each field keeps the first column that matched it, so in the  *)
(* ColumnMapping returned no column is mapped by two different fields.     *)
(***************************************************************************)
OneFieldPerColumn(map) ==
    \A i, j \in DOMAIN map : i # j => map[i].val # map[j].val

C17_OneFieldPerColumn ==
    /\ mc_pc = "scanned" => OneFieldPerColumn(field_map)
    /\ mc_pc = "returned" => OneFieldPerColumn(mc_result[1].field_map)

(***************************************************************************)
(* Vocabulary of the invoice-number property                               *)
(***************************************************************************)
\* the cells of the header window that hold a non-blank text
HeaderWindowCells ==
    { c \in DOMAIN inv_sheet :
        /\ c[1] \in 1..INV_NO_SCAN_ROW_END
        /\ c[2] \in 1..MAP_COL_COUNT
        /\ StripText(inv_sheet[c]) # "" }

Before(c, d) == c[1] < d[1] \/ (c[1] = d[1] /\ c[2] < d[2])

Earliest(S) == CHOOSE c \in S : \A d \in S \ {c} : Before(c, d)

\* what the capture pattern of the configuration extracts from a cell
CaptureOf(c) == DictGet(inv_config.inv_no_cell.patterns[1], inv_sheet[c], None)

Excluded(text) == text \in inv_config.inv_no_cell.exclude_patterns

CaptureCells == { c \in HeaderWindowCells : CaptureOf(c) # None /\ ~ Excluded(CaptureOf(c)[1]) }

\* a cell anywhere on the sheet that can serve as the value next to a label
IsCandidate(c) ==
    /\ c \in DOMAIN inv_sheet
    /\ StripText(inv_sheet[c]) # ""
    /\ ~ Excluded(StripText(inv_sheet[c]))

\* the rank in which the neighbours of a label cell are tried: 1..3 to the
\* right, then 4..5 below
NeighbourAt(c, rank) ==
    IF rank <= 3 THEN << c[1], c[2] + rank >> ELSE << c[1] + (rank - 3), c[2] >>

CandidateRanks(c) == { rank \in 1..5 : IsCandidate(NeighbourAt(c, rank)) }

LabelCells ==
    { c \in HeaderWindowCells :
        /\ inv_sheet[c] \in inv_config.inv_no_cell.label_patterns
        /\ CandidateRanks(c) # {} }

LeastRank(c) == CHOOSE rank \in CandidateRanks(c) : \A q \in CandidateRanks(c) : rank <= q

Cleaned(text) == IF text = "INV#789" THEN "789" ELSE text

(***************************************************************************)
(* C18: extract_inv_no_from_header always returns.  A capture-pattern      *)
(* match anywhere in the header window whose captured group is not         *)
(* excluded decides the result, whatever label cells there are; without    *)
(* one, the earliest label cell with a candidate decides, its candidate    *)
(* being the first non-excluded neighbour among the three cells to its     *)
(* right and then the two cells below; without either the result is        *)
(* absent.                                                                 *)
(***************************************************************************)
C18_InvNoFromHeader ==
    inv_pc = "returned" =>
        IF CaptureCells # {}
        THEN inv_no = Some(Cleaned(CaptureOf(Earliest(CaptureCells))[1]))
        ELSE IF LabelCells # {}
        THEN LET label == Earliest(LabelCells)
             IN  inv_no = Some(Cleaned(StripText(
                               inv_sheet[NeighbourAt(label, LeastRank(label))])))
        ELSE inv_no = None

\* a label cell with a candidate to its right and another one below it: the
\* one to the right is returned
C18_Witness ==
    /\ inv_pc = "returned"
    /\ CaptureCells = {}
    /\ \E c \in LabelCells :
          /\ \E r \in 1..3 : r \in CandidateRanks(c)
          /\ \E b \in 4..5 : b \in CandidateRanks(c)
          /\ inv_sheet[NeighbourAt(c, LeastRank(c))]
               # inv_sheet[NeighbourAt(c, CHOOSE b \in 4..5 : b \in CandidateRanks(c))]
          /\ inv_no = Some(Cleaned(inv_sheet[NeighbourAt(c, LeastRank(c))]))

(***************************************************************************)
(* Vocabulary of the extraction properties                                 *)
(***************************************************************************)
\* the loop stands at a row of the sheet
AtRow == ei_pc = "loop" /\ ei_row <= ei_max_row

\* a string cell of columns 1 to 10 of the row holds a stop keyword
HoldsStopKeyword(r) ==
    \E c \in 1..10 :
        /\ ei_sheet[<< r, c >>].kind = "str"
        /\ ei_sheet[<< r, c >>].text \in { "Total", "Grand Total" }

\* the cell a field of the row is read from: the anchor of its merged range
\* when it lies in one
SourceCell(r, c) ==
    IF << r, c >> \in DOMAIN ei_merge_tracker
    THEN ei_sheet[<< ei_merge_tracker[<< r, c >>].min_row,
                     ei_merge_tracker[<< r, c >>].min_col >>]
    ELSE ei_sheet[<< r, c >>]

IsEmptyValue(v) == v.kind = "none" \/ (v.kind = "str" /\ v.text \in { "", "  " })

PartNoEmpty(r) == IsEmptyValue(SourceCell(r, 1))

QtyEmpty(r) == IsEmptyValue(ei_sheet[<< r, 3 >>])

IsHeaderContinuation(r) ==
    SourceCell(r, 1).kind = "str" /\ SourceCell(r, 1).text = "Part No"

\* the row ends the extraction without a word: nothing is appended, nothing
\* is raised
EndsQuietly ==
    /\ ei_pc' = "returned"
    /\ ei_items' = ei_items
    /\ ei_error' = NoError

\* the row is passed over: the loop goes on with the next row
SkippedQuietly ==
    /\ ei_pc' = "loop"
    /\ ei_row' = ei_row + 1
    /\ ei_items' = ei_items
    /\ ei_error' = NoError

SheetRows == { r \in 1..ei_max_row : << r, 1 >> \in DOMAIN ei_sheet }

(***************************************************************************)
(* C19: a row holding a stop keyword in one of columns 1 to 10 ends the    *)
(* extraction whatever else it holds: no item is appended for it, no error *)
(* is raised, and once the extraction has ended no item is added any more. *)
(***************************************************************************)
C19_StopKeywordFirst ==
    [][ /\ (AtRow /\ HoldsStopKeyword(ei_row)) => EndsQuietly
        /\ ei_pc \in { "returned", "failed" } => ei_items' = ei_items ]_vars

\* the extraction ended at a stop row whose other cells are placeholders and
\* invalid numbers, with an item extracted before it and rows left after it
C19_Witness ==
    /\ ei_pc = "returned"
    /\ ei_row < ei_max_row
    /\ HoldsStopKeyword(ei_row)
    /\ ei_sheet[<< ei_row, 1 >>] = Str("-")
    /\ ei_sheet[<< ei_row, 3 >>] = Str("abc")
    /\ Len(ei_items) = 1
    /\ ei_error = NoError

(***************************************************************************)
(* C20: a row without stop keyword whose part number and quantity are both *)
(* empty is passed over while no item has been appended, and ends the      *)
(* extraction, without error, once one has.  A header-continuation row is  *)
(* passed over without counting as data, and only a row that is read as a  *)
(* line item can raise: an extraction that appends nothing for want of     *)
(* such rows returns the empty list.                                       *)
(***************************************************************************)
C20_BlankRows ==
    [][ /\ (AtRow /\ ~ HoldsStopKeyword(ei_row) /\ PartNoEmpty(ei_row) /\ QtyEmpty(ei_row))
           => IF ei_items = << >> THEN SkippedQuietly ELSE EndsQuietly
        /\ (AtRow /\ ~ HoldsStopKeyword(ei_row) /\ ~ PartNoEmpty(ei_row)
                  /\ IsHeaderContinuation(ei_row))
           => SkippedQuietly
        /\ (ei_pc = "loop" /\ ei_row > ei_max_row)
           => (ei_pc' = "returned" /\ ei_items' = ei_items /\ ei_error' = NoError) ]_vars

\* a blank row that was passed over, then a line item, then the blank row
\* that ended the extraction
C20_Witness ==
    /\ ei_pc = "returned"
    /\ ei_error = NoError
    /\ Len(ei_items) = 1
    /\ ei_row <= ei_max_row
    /\ ~ HoldsStopKeyword(ei_row) /\ PartNoEmpty(ei_row) /\ QtyEmpty(ei_row)
    /\ \E b \in SheetRows :
          /\ b < ei_row
          /\ ~ HoldsStopKeyword(b) /\ PartNoEmpty(b) /\ QtyEmpty(b)

(***************************************************************************)
(* Vocabulary of the stage order of allocate_weights, stated on the inputs *)
(***************************************************************************)
Terminal == pc \in { "done", "failed" }

WeightNonPositive == \E k \in PackingPartSet : PartNw(k) <= 0

QuantityNonPositive == \E k \in PackingPartSet : PartQty(k) <= 0

\* the unrounded sum of the packing weights is off the stated total by more
\* than 0.1
SumOffTotal == Abs(PackingSum - total_nw) > Unit \div 10

SumPrecision ==
    IF RoundedPartSum(Clamped) = total_nw THEN Clamped
    ELSE IF Clamped < 5 THEN Clamped + 1 ELSE 5

ChosenPrecision ==
    CHOOSE p \in SumPrecision..5 :
        NoZeroAt(p) /\ \A q \in SumPrecision..(p - 1) : ~ NoZeroAt(q)

NegativeRemainder ==
    /\ PackingPartSet # {}
    /\ total_nw - SumOver(OtherParts,
                          [k \in OtherParts |-> HalfUp(PartNw(k), ChosenPrecision)]) < 0

\* the error of the earliest stage whose failure condition holds; "" when
\* no stage before the final validation fails
EarliestFailure ==
    IF WeightNonPositive THEN "ERR_042"
    ELSE IF QuantityNonPositive THEN "ERR_045"
    ELSE IF SumOffTotal THEN "ERR_047"
    ELSE IF ~ NoZeroAt(5) THEN "ERR_044"
    ELSE IF NegativeRemainder THEN "ERR_041"
    ELSE IF UnmatchedInvoiceParts # {} THEN "ERR_040"
    ELSE IF UnmatchedPackingParts # {} THEN "ERR_043"
    ELSE ""

(***************************************************************************)
(* C27: the stages of allocate_weights complete one after the other, each  *)
(* once, and the call raises at the first stage that fails: the error is   *)
(* that of the earliest stage whose failure condition holds, in the order  *)
(* ERR_042, ERR_045, ERR_047 (on the unrounded sums), ERR_044, ERR_041,    *)
(* ERR_040, ERR_043, and ERR_048 only when none of these conditions holds. *)
(***************************************************************************)
C27_EarliestStageError ==
    /\ [](Terminal =>
             IF EarliestFailure # "" THEN pc = "failed" /\ error.code = EarliestFailure
             ELSE error.code \in { "", "ERR_048" })
    /\ [][pc' # pc => (pc' = "failed" \/ StagesPassed' = StagesPassed + 1)]_vars

(***************************************************************************)
(* C29: a call of allocate_weights that fails leaves the allocated_weight  *)
(* of every invoice item absent.                                           *)
(***************************************************************************)
C29_FailureLeavesItemsUnallocated ==
    pc = "failed" => \A i \in InvoiceLines : Allocated(i) = None

(***************************************************************************)
(* C30: allocate_weights ends with a return or with one of its documented  *)
(* errors, never with an arithmetic fault: no division by a total quantity *)
(* of zero is made.                                                        *)
(***************************************************************************)
C30_NoArithmeticFault ==
    pc = "failed" =>
        error.code \in { "ERR_040", "ERR_041", "ERR_042", "ERR_043", "ERR_044",
                         "ERR_045", "ERR_047", "ERR_048" }

(***************************************************************************)
(* Vocabulary of the conversions.                                          *)
(***************************************************************************)
\* the spellings that name an entry of a lookup table: outer spaces, case
\* and the space after a comma do not count
Spellings(key) ==
    CASE key = "USD"          -> { "USD", "usd " }
      [] key = "CN"           -> { "CN", "cn" }
      [] key = "TAIWAN,CHINA" -> { "Taiwan, China", "TAIWAN,CHINA" }
      [] OTHER                -> { key }

\* the entries of a lookup table that a value names
EntriesFor(lookup, value) ==
    { e \in 1..Len(lookup) : value \in Spellings(lookup[e].key) }

\* what one conversion step must do to the list, the objects and the warnings
Converted(lookup, field, att) ==
    LET unmatched == SelectSeq(tr_items,
                         LAMBDA id : EntriesFor(lookup, tr_heap[id][field]) = {})
    IN  /\ Len(tr_items') = Len(tr_items)
        /\ \A id \in DOMAIN tr_heap : tr_heap'[id] = tr_heap[id]
        /\ \A i \in DOMAIN tr_items :
             LET old == tr_heap[tr_items[i]]
                 entries == EntriesFor(lookup, old[field])
             IN  /\ tr_items'[i] \notin DOMAIN tr_heap
                 /\ \A j \in DOMAIN tr_items : j # i => tr_items'[j] # tr_items'[i]
                 /\ IF entries = {}
                    THEN tr_heap'[tr_items'[i]] = old
                    ELSE \E e \in entries :
                           tr_heap'[tr_items'[i]] = [old EXCEPT ![field] = lookup[e].val]
        /\ Len(tr_warnings') = Len(tr_warnings) + Len(unmatched)
        /\ \A w \in (Len(tr_warnings) + 1)..Len(tr_warnings') :
             tr_warnings'[w].code = att

\* C24: convert_currency and convert_country never fail and never change an
\* item they were given: each returns a list of new items, of the same length
\* and order, in which a value found in the lookup table is replaced by its
\* code and a value not found is kept, with exactly one warning (ATT_003 for
\* the currency, ATT_004 for the origin) for each item not found and none for
\* the others.
C24_ConversionsCopyAndWarn ==
    /\ [][ /\ tr_pc = "start" => ( /\ tr_pc' = "currency"
                                 /\ Converted(tr_config.currency_lookup,
                                              "currency", "ATT_003") )
           /\ tr_pc = "currency" => ( /\ tr_pc' = "country"
                                    /\ Converted(tr_config.country_lookup,
                                                 "coo", "ATT_004") ) ]_vars
    /\ [](tr_pc \in { "start", "currency" } => ENABLED NextTransform)

\* two items went through both conversions: one found in both tables under
\* another spelling, one found in neither, which left two warnings
C24_Witness ==
    /\ tr_pc = "country"
    /\ Len(tr_items) = 2
    /\ tr_heap[1] = [currency |-> "usd ", coo |-> "Taiwan, China"]
    /\ tr_heap[2] = [currency |-> "XYZ", coo |-> "Mars"]
    /\ tr_heap[tr_items[1]] = [currency |-> "502", coo |-> "143"]
    /\ tr_heap[tr_items[2]] = [currency |-> "XYZ", coo |-> "Mars"]
    /\ Len(tr_warnings) = 2
    /\ tr_warnings[1].code = "ATT_003"
    /\ tr_warnings[2].code = "ATT_004"

(***************************************************************************)
(* Vocabulary of the packing extraction, stated on the sheet.              *)
(***************************************************************************)
PkCell(r, c) == IF << r, c >> \in DOMAIN pk_sheet THEN pk_sheet[<< r, c >>] ELSE EmptyCell

\* the cell holds nothing, or spaces only
PkEmpty(r, c) == PkCell(r, c) \in { EmptyCell, Str("  ") }

\* the cell holds a positive number, with or without a unit
PkPositive(r, c) ==
    \/ PkCell(r, c).kind = "int" /\ PkCell(r, c).num > 0
    \/ PkCell(r, c) = Str("10 KG")

\* the cell holds a number
PkNumber(r, c) == PkCell(r, c).kind = "int" \/ PkCell(r, c) = Str("10 KG")

\* a cell of columns A-J of the row holds a stop keyword
PkKeywordRow(r) ==
    \E c \in 1..10 : PkCell(r, c) \in { Str("Total"), Str("Grand Total") }

\* the cell lies in a merged range of which it is not the first cell
PkContinuation(r, c) ==
    /\ << r, c >> \in DOMAIN pk_merge_tracker
    /\ << pk_merge_tracker[<< r, c >>].min_row,
          pk_merge_tracker[<< r, c >>].min_col >> # << r, c >>

\* the shape of an implicit total row: no part number, positive weights
PkTotalShape(r) == PkEmpty(r, 1) /\ PkPositive(r, 3) /\ PkPositive(r, 4)

\* the part number at the head of the merged range of the row's part-number cell
PkAnchorPart(r) == PkCell(pk_merge_tracker[<< r, 1 >>].min_row, 1)

\* the row is a continuation of a merged part-number cell that holds a real part
PkContinuesRealPart(r) ==
    /\ PkContinuation(r, 1)
    /\ PkAnchorPart(r) \in { Str("PT001"), Str("PT002") }

\* C21: a row with an empty part-number cell, a positive net weight and a
\* positive gross weight that is not a continuation of a merged part-number
\* cell ends the extraction at that row: nothing is emitted for it and no
\* error is raised, whether or not a data row was seen before.  A row of that
\* shape that continues the merged part-number cell of a real part (and has
\* no stop keyword and a number as quantity) does not end the extraction: it
\* is emitted with the part number of the anchor.
C21_ImplicitTotalRow ==
    [][ (pk_pc = "loop" /\ pk_row <= pk_max_row /\ PkTotalShape(pk_row)) =>
          /\ ~ PkContinuation(pk_row, 1) =>
               /\ pk_pc' = "extracted"
               /\ pk_row' = pk_row
               /\ pk_items' = pk_items
               /\ pk_error' = NoError
          /\ ( /\ PkContinuesRealPart(pk_row)
               /\ ~ PkKeywordRow(pk_row)
               /\ PkNumber(pk_row, 2) ) =>
               /\ pk_pc' = "loop"
               /\ pk_row' = pk_row + 1
               /\ pk_error' = NoError
               /\ Len(pk_items') = Len(pk_items) + 1
               /\ SubSeq(pk_items', 1, Len(pk_items)) = pk_items
               /\ Str(pk_items'[Len(pk_items')].part_no) = PkAnchorPart(pk_row)
               /\ pk_items'[Len(pk_items')].row_number = pk_row ]_vars

\* a row of that shape under the merged part number of the row above was
\* emitted with the anchor's part number, and the next row of that shape,
\* outside any merge, ended the extraction
C21_Witness ==
    /\ pk_pc = "extracted"
    /\ pk_row = 10
    /\ PkTotalShape(9) /\ PkContinuesRealPart(9)
    /\ PkTotalShape(10) /\ ~ PkContinuation(10, 1)
    /\ Len(pk_items) = 2
    /\ pk_items[2].part_no = "PT001"
    /\ pk_items[2].row_number = 9
    /\ pk_items[2].nw > 0

\* the part number the row stands for: its own, or the anchor's under a merge
PkPart(r) ==
    IF PkContinuation(r, 1) THEN PkAnchorPart(r).text ELSE PkCell(r, 1).text

\* the row carries a real part number
PkHasRealPart(r) ==
    IF PkContinuation(r, 1) THEN PkContinuesRealPart(r)
    ELSE PkCell(r, 1) \in { Str("PT001"), Str("PT002") }

\* the cell is a placeholder for zero: a non-anchor cell of a merged range,
\* or an empty cell of a row with the part number of the item before
PkPlaceholder(r, c) ==
    \/ PkContinuation(r, c)
    \/ PkEmpty(r, c) /\ prev_part_no = Some(PkPart(r))

\* quantity and weight of the row both resolve to zero
PkZeroRow(r) ==
    /\ PkHasRealPart(r)
    /\ ~ PkKeywordRow(r)
    /\ PkCell(r, 3) = Str("\"") \/ PkPlaceholder(r, 3) \/ PkCell(r, 3) = Number(0)
    /\ PkPlaceholder(r, 2) \/ PkCell(r, 2) = Number(0)

\* C22: every emitted PackingItem whose is_first_row_of_merge is false has a
\* net weight of exactly 0, and no emitted item has both quantity 0 and net
\* weight 0: a row of a real part whose quantity and weight both resolve to
\* zero is passed over, without an error and without ending the extraction.
C22_PlaceholderWeights ==
    /\ [](\A i \in DOMAIN pk_items :
             /\ ~ pk_items[i].is_first_row_of_merge => pk_items[i].nw = 0
             /\ ~ (pk_items[i].qty = 0 /\ pk_items[i].nw = 0))
    /\ [][ (pk_pc = "loop" /\ pk_row <= pk_max_row /\ PkZeroRow(pk_row)) =>
             /\ pk_pc' = "loop"
             /\ pk_row' = pk_row + 1
             /\ pk_items' = pk_items
             /\ pk_error' = NoError ]_vars

\* a data row, a row with ditto marks as weight that was emitted with weight 0
\* and flagged, and a row with neither quantity nor weight that was passed over
C22_Witness ==
    /\ pk_pc = "loop"
    /\ pk_row = 11
    /\ PkCell(9, 3) = Str("\"")
    /\ PkCell(10, 1) = Str("PT001") /\ PkEmpty(10, 2) /\ PkEmpty(10, 3)
    /\ Len(pk_items) = 2
    /\ pk_items[1].is_first_row_of_merge /\ pk_items[1].nw > 0
    /\ ~ pk_items[2].is_first_row_of_merge
    /\ pk_items[2].row_number = 9 /\ pk_items[2].nw = 0 /\ pk_items[2].qty > 0

\* the merged ranges of the packing sheet
PkRanges == { pk_merge_tracker[cell] : cell \in DOMAIN pk_merge_tracker }

\* the part numbers of the emitted rows that a range covers
PkPartsUnder(rng) ==
    { pk_items[i].part_no :
        i \in { j \in DOMAIN pk_items :
                  pk_items[j].row_number \in rng.min_row .. rng.max_row } }

\* a merged range of the weight or quantity column, starting below the header
\* row, covers emitted rows of more than one part number
SharedMergedWeight ==
    \E rng \in PkRanges :
        /\ rng.min_row > pk_column_map.header_row
        /\ \E c \in { 2, 3 } : c \in rng.min_col .. rng.max_col
        /\ Cardinality(PkPartsUnder(rng)) > 1

\* C23: validate_merged_weights fails with ERR_046 exactly when some merged
\* range of the weight or quantity column that starts below the header row
\* covers emitted packing rows of more than one part number; otherwise it
\* returns normally; either way it changes nothing.
C23_SharedMergedWeight ==
    [][ pk_pc = "extracted" =>
          /\ IF SharedMergedWeight
             THEN pk_pc' = "failed" /\ pk_error'.code = "ERR_046"
             ELSE pk_pc' = "validated" /\ pk_error' = NoError
          /\ pk_items' = pk_items
          /\ pk_merge_tracker' = pk_merge_tracker
          /\ pk_column_map' = pk_column_map
          /\ pk_sheet' = pk_sheet ]_vars

\* two rows of different parts under one merged quantity cell were emitted
\* and the validation failed on the range
C23_Witness ==
    /\ pk_pc = "failed"
    /\ pk_error = ProcessingError("ERR_046", << "qty", 8 >>)
    /\ Len(pk_items) = 2
    /\ pk_items[1].part_no = "PT001" /\ pk_items[1].row_number = 8
    /\ pk_items[2].part_no = "PT002" /\ pk_items[2].row_number = 9
    /\ MergeRange(8, 9, 2, 2) \in PkRanges

\* the extraction left its loop at row pk_row because of a stop keyword or
\* an implicit total row, and detect_total_row has been called
EndedAtTotalRow ==
    /\ pk_pc = "detected" \/ (pk_pc = "failed" /\ pk_error.code = "ERR_032")
    /\ pk_row <= pk_max_row
    /\ PkKeywordRow(pk_row) \/ (PkTotalShape(pk_row) /\ ~ PkContinuation(pk_row, 1))

\* C28: the row at which extract_packing_items ends because of a stop keyword
\* or an implicit total row is the row that detect_total_row, called with the
\* returned last_data_row, returns, whenever it lies within the 15 rows
\* searched: also when no item was emitted and when a keyword row follows an
\* implicit total row.
C28_TotalRowIsStopRow ==
    (EndedAtTotalRow /\ pk_row <= last_data_row + 15) =>
        pk_pc = "detected" /\ pk_total_row = pk_row

(***************************************************************************)
(* Vocabulary of the batch.                                                *)
(***************************************************************************)
FatalCodes ==
    { "ERR_010", "ERR_011", "ERR_012", "ERR_014", "ERR_020", "ERR_021", "ERR_030",
      "ERR_047", "ERR_051" }

WarningCodes == { "ATT_002", "ATT_003", "ATT_004" }

\* the status that goes with what was recorded
StatusOf(errors, warnings) ==
    CASE Len(errors) >= 1                      -> "Failed"
      [] Len(errors) = 0 /\ Len(warnings) >= 1 -> "Attention"
      [] OTHER                                 -> "Success"

\* the files of data/ that are scanned: neither temporary nor hidden
Scanned == bt_data_dir \ { "~$b.xls", ".c.xlsx" }

\* C25: process_file turns no fatal error into a warning and no warning into
\* a fatal error: what it returns has the status Failed exactly when a fatal
\* error was recorded, Attention exactly when none was and a warning was
\* recorded, Success exactly when nothing was recorded; and the output writer
\* is called only while no fatal error has been recorded.
C25_StatusFollowsRecords ==
    /\ [](/\ \A i \in DOMAIN bt_errors : bt_errors[i] \in FatalCodes
          /\ \A i \in DOMAIN bt_warnings : bt_warnings[i] \in WarningCodes
          /\ bt_pc = "return" => bt_status = StatusOf(bt_errors, bt_warnings)
          /\ \A i \in DOMAIN bt_file_results :
               bt_file_results[i].status
                 = StatusOf(bt_file_results[i].errors, bt_file_results[i].warnings))
    /\ [][ /\ bt_finished' # bt_finished => bt_errors = << >>
           /\ (bt_pc # "call" /\ bt_warnings' # bt_warnings) =>
                 /\ Len(bt_warnings') > Len(bt_warnings)
                 /\ bt_errors' = bt_errors
           /\ (bt_pc # "call" /\ bt_errors' # bt_errors) =>
                 /\ Len(bt_errors') > Len(bt_errors)
                 /\ bt_warnings' = bt_warnings ]_vars

\* a file for which a warning and then a fatal error were recorded is about
\* to be returned as Failed, the writer not having been called
C25_Witness ==
    /\ bt_pc = "return"
    /\ bt_warnings = << "ATT_003" >>
    /\ bt_errors = << "ERR_047" >>
    /\ bt_status = "Failed"
    /\ bt_finished = {}

\* C26: a fatal error ends the processing of its own file only: run_batch
\* returns exactly one result for every scanned file, in the order of the
\* file names, whatever became of the files before (locked and corrupt ones
\* included), and success_count + attention_count + failed_count equals
\* total_files.
C26_OneResultPerFile ==
    /\ [](bt_pc = "done" =>
            /\ bt_result # None
            /\ LET r == bt_result[1]
               IN  /\ Len(r.file_results) = Cardinality(Scanned)
                   /\ { r.file_results[i].filename : i \in DOMAIN r.file_results } = Scanned
                   /\ \A i, j \in DOMAIN r.file_results :
                        i < j => NameRank(r.file_results[i].filename)
                                   < NameRank(r.file_results[j].filename)
                   /\ r.total_files = Cardinality(Scanned)
                   /\ r.success_count + r.attention_count + r.failed_count
                        = r.total_files)
    /\ [](bt_pc = "call" => Len(bt_file_results) = bt_idx - 1)
    /\ [](bt_pc # "done" => ENABLED NextBatch)

\* the first file was locked and failed with ERR_010, the second one went
\* through, and the batch returned both results
C26_Witness ==
    /\ bt_pc = "done"
    /\ bt_data_dir = { "a.xlsx", "b.xls" }
    /\ bt_result # None
    /\ bt_result[1].file_results
         = << FileResult("a.xlsx", "Failed", << "ERR_010" >>, << >>),
              FileResult("b.xls", "Success", << >>, << >>) >>
    /\ bt_result[1].failed_count = 1
    /\ bt_result[1].success_count = 1
    /\ bt_finished = { "b.xls" }

====
